---- MODULE Spec2Model ----
(***************************************************************************)
(* Model of libs/vkd3d/resource.c: the per-resource view cache             *)
(* (the vkd3d_view_map functions), view reference counting, the two-level  *)
(* resource                                                                *)
(* reference count, committed resource creation and destruction, and the   *)
(* descriptor write engine (null descriptors, CBVs).                       *)
(*                                                                         *)
(* The module holds several specifications over one set of variables.      *)
(* Each specification drives one subsystem and leaves the variables of    *)
(* the others at their initial values:                                     *)
(*   SpecView  threads calling vkd3d_view_map_create_view on one view map, *)
(*             holders of view references, vkd3d_view_map_destroy          *)
(***************************************************************************)
EXTENDS Integers, Sequences, FiniteSets, TLC

(***************************************************************************)
(* Bounds of the model.                                                    *)
(***************************************************************************)
NumThreads == 2
MaxViews == 3
MaxHolderRefs == 1
MaxRefs == 2
NumSlots == 2
MaxTiles == 3
\* Descriptor pools the driver lets the sampler state create, and the sets of
\* one pool (pool_info.maxSets, 4096 in the code).
MaxPools == 2
PoolMaxSets == 1
MaxSamplers == 3
MaxCookies == 6
MaxFirstElement == 8
MaxNumElements == 10

\* VkDescriptorType
VK_DESCRIPTOR_TYPE_SAMPLED_IMAGE == 2
VK_DESCRIPTOR_TYPE_STORAGE_IMAGE == 3
VK_DESCRIPTOR_TYPE_UNIFORM_TEXEL_BUFFER == 4
VK_DESCRIPTOR_TYPE_STORAGE_TEXEL_BUFFER == 5
VK_DESCRIPTOR_TYPE_UNIFORM_BUFFER == 6
VK_DESCRIPTOR_TYPE_STORAGE_BUFFER == 7
VK_DESCRIPTOR_TYPE_MUTABLE_VALVE == 1000351000

D3D12_CONSTANT_BUFFER_DATA_PLACEMENT_ALIGNMENT == 256

Threads == 1..NumThreads
NoView == 0

VARIABLES
    \* struct vkd3d_view_map
    spinlock,        \* rw spinlock word: [readers, writer]
    map,             \* occupied hash map entries: set of [key, view]
    used_count,      \* hash_map.used_count
    inserting,       \* entry whose slot is being written by hash_map_insert, or NoEntry
    mapDestroyed,    \* vkd3d_view_map_destroy has run (resource teardown)
    \* struct vkd3d_view objects, in creation order
    views,
    \* per-thread position in vkd3d_view_map_create_view and its locals
    pc, key, view, e, redundant_view, holds,
    \* the keys requested in this behaviour
    pool,
    \* observations
    served,          \* served[k]: set of views returned to callers that asked for k
    nativeUnderLock, \* a native driver call was made by a thread holding the spinlock
    tornRead,        \* a lookup ran while an entry was being written
    danglingUse,     \* a freed struct vkd3d_view was accessed
    teardownCount,   \* native views destroyed by vkd3d_view_map_destroy
    \* struct d3d12_resource and what it owns
    resource,        \* state, refcount, internal_refcount, flags, handles
    live,            \* native objects and allocations of the resource that exist
    deviceRefs,      \* references on the d3d12_device held on behalf of the resource
    \* per-thread position in AddRef / Release / decref, and references owned
    rpc, pubHeld, intHeld,
    \* observations
    destroyCount,    \* calls of d3d12_resource_destroy made by d3d12_resource_decref
    refsAtDestroy,   \* references outstanding when d3d12_resource_destroy ran
    immediate,       \* nothing but the final Release has touched the resource
    device,          \* the features of the d3d12_device the teardown reads
    \* a CBV_SRV_UAV descriptor heap
    heap,            \* bindless layout and null descriptor template
    descs,           \* the heap's slots: struct d3d12_desc
    lastWrite,       \* the last descriptor write and what it did
    \* placed and reserved resource creation
    request,         \* the D3D12_RESOURCE_DESC passed in and the driver's answers
    allocation_info, \* D3D12_RESOURCE_ALLOCATION_INFO reported for request
    created,         \* the creation call made for request and what it did
    \* struct vkd3d_sampler_state and the descriptor pools of the driver
    sampler_state,   \* mutex owner and vk_descriptor_pools
    vk_pools,        \* the VkDescriptorPool objects created: alive, sets allocated
    sampler_call,    \* per thread: position and locals of the allocation call
    returned_call,   \* the call that returned last: its locals and what it returned
    unlockedCall,    \* a pool was used or listed by a thread not holding the mutex
    \* static samplers: state->map of struct vkd3d_sampler_state
    static_map,      \* occupied entries: set of [desc, vk_sampler]
    vk_samplers,     \* the VkSampler objects created, by handle: their description
    static_call,     \* per thread: position and locals of the static sampler call
    static_returned, \* per description: the [thread, vk_sampler] that calls returned with S_OK
    \* cookies
    global_cookie_counter, \* static LONG64 global_cookie_counter
    cookies,         \* the values vkd3d_allocate_cookie returned, in allocation order
    \* struct d3d12_descriptor_heap as an object: creation, AddRef, Release
    heap_object,     \* state, refcount and the handles the teardown reads
    heap_live,       \* native objects and allocations of the heap that exist
    heap_deviceRefs, \* references on the d3d12_device held on behalf of the heap
    hpc, heapHeld,   \* per thread: position in Release and references owned
    heap_teardown    \* what d3d12_descriptor_heap_cleanup and the final Release did

viewVars == <<spinlock, map, used_count, inserting, mapDestroyed, views,
              pc, key, view, e, redundant_view, holds, pool, served,
              nativeUnderLock, tornRead, danglingUse, teardownCount>>

refVars == <<resource, live, deviceRefs, rpc, pubHeld, intHeld, destroyCount,
             refsAtDestroy, immediate, device>>

descVars == <<heap, descs, lastWrite>>

createVars == <<request, allocation_info, created>>

samplerVars == <<sampler_state, vk_pools, sampler_call, returned_call,
                 unlockedCall>>

staticVars == <<static_map, vk_samplers, static_call, static_returned>>

cookieVars == <<global_cookie_counter, cookies>>

heapLifeVars == <<heap_object, heap_live, heap_deviceRefs, hpc, heapHeld,
                  heap_teardown>>

vars == <<viewVars, refVars, descVars, createVars, samplerVars, staticVars, cookieVars, heapLifeVars>>

\* What an operation on the view map leaves alone.
ViewOnly == UNCHANGED <<refVars, descVars, createVars, samplerVars, staticVars, cookieVars, heapLifeVars>>

(***************************************************************************)
(* View keys: struct vkd3d_view_key.  The C union is kept as three         *)
(* sub-records; the members that do not belong to view_type stay zero.     *)
(***************************************************************************)
ZeroBufferKey == [buffer |-> 0, format |-> 0, offset |-> 0, size |-> 0]

\* A float is held by the fields of its IEEE 754 binary32 encoding: the sign
\* bit, the 8 exponent bits and the 23 fraction bits.
PositiveZero == [sign |-> 0, exponent |-> 0, fraction |-> 0]
NegativeZero == [sign |-> 1, exponent |-> 0, fraction |-> 0]
SmallestFloat == [sign |-> 0, exponent |-> 0, fraction |-> 1]
FloatOne == [sign |-> 0, exponent |-> 127, fraction |-> 0]
QuietNaN == [sign |-> 0, exponent |-> 255, fraction |-> 4194304]

\* float_bits_to_uint32: the 32 bits of the float as an unsigned integer,
\* held by its two's-complement reading (sign bit set: the value minus 2^32).
float_bits_to_uint32(f) ==
    LET low == f.exponent * 8388608 + f.fraction
    IN  IF f.sign = 1 THEN (low - 2147483647) - 1 ELSE low

float_is_nan(f) == f.exponent = 255 /\ f.fraction # 0

\* a == b on two floats: false when either is a NaN, true for zeros of
\* either sign, otherwise equality of the encodings.
float_equal(a, b) ==
    /\ ~float_is_nan(a)
    /\ ~float_is_nan(b)
    /\ \/ a = b
       \/ /\ a.exponent = 0 /\ a.fraction = 0
          /\ b.exponent = 0 /\ b.fraction = 0

ZeroTextureKey ==
    [image |-> 0, view_type |-> 0, format |-> 0, aspect_mask |-> 0,
     miplevel_idx |-> 0, miplevel_count |-> 0,
     miplevel_clamp |-> PositiveZero,
     layer_idx |-> 0, layer_count |-> 0,
     components |-> [r |-> 0, g |-> 0, b |-> 0, a |-> 0],
     allowed_swizzle |-> FALSE]

ZeroSamplerKey ==
    [Filter |-> 0, AddressU |-> "WRAP", AddressV |-> "WRAP", AddressW |-> "WRAP",
     MipLODBias |-> PositiveZero, MaxAnisotropy |-> 0, ComparisonFunc |-> 0,
     BorderColor |-> <<PositiveZero, PositiveZero, PositiveZero, PositiveZero>>,
     MinLOD |-> PositiveZero, MaxLOD |-> PositiveZero]

NoKey == [view_type |-> "NONE", buffer |-> ZeroBufferKey,
          texture |-> ZeroTextureKey, sampler |-> ZeroSamplerKey]

NoEntry == [key |-> NoKey, view |-> NoView]

d3d12_sampler_needs_border_color(u, v, w) ==
    u = "BORDER" \/ v = "BORDER" \/ w = "BORDER"

\* The fields vkd3d_view_entry_hash feeds to hash_combine, in order.  Equal
\* tuples give equal hashes; the probe compares hash values before it calls
\* the compare function.
vkd3d_view_entry_hash(k) ==
    CASE k.view_type \in {"BUFFER", "ACCELERATION_STRUCTURE"} ->
            <<k.buffer.buffer, k.buffer.offset, k.buffer.size, k.buffer.format>>
      [] k.view_type = "IMAGE" ->
            <<k.texture.image, k.texture.view_type, k.texture.format,
              k.texture.miplevel_idx, k.texture.miplevel_count,
              float_bits_to_uint32(k.texture.miplevel_clamp),
              k.texture.layer_idx,
              k.texture.layer_count, k.texture.components.r,
              k.texture.components.g, k.texture.components.b,
              k.texture.components.a, k.texture.allowed_swizzle>>
      [] k.view_type = "SAMPLER" ->
            <<k.sampler.Filter, k.sampler.AddressU, k.sampler.AddressV,
              k.sampler.AddressW, float_bits_to_uint32(k.sampler.MipLODBias),
              k.sampler.MaxAnisotropy, k.sampler.ComparisonFunc,
              IF d3d12_sampler_needs_border_color(k.sampler.AddressU,
                     k.sampler.AddressV, k.sampler.AddressW)
              THEN [i \in 1..4 |->
                        float_bits_to_uint32(k.sampler.BorderColor[i])]
              ELSE <<>>,
              float_bits_to_uint32(k.sampler.MinLOD),
              float_bits_to_uint32(k.sampler.MaxLOD)>>
      [] OTHER -> <<>>

vkd3d_view_entry_compare(k, ek) ==
    IF k.view_type # ek.view_type THEN FALSE
    ELSE CASE k.view_type \in {"BUFFER", "ACCELERATION_STRUCTURE"} ->
                 /\ k.buffer.buffer = ek.buffer.buffer
                 /\ k.buffer.format = ek.buffer.format
                 /\ k.buffer.offset = ek.buffer.offset
                 /\ k.buffer.size = ek.buffer.size
           [] k.view_type = "IMAGE" ->
                 /\ k.texture.image = ek.texture.image
                 /\ k.texture.view_type = ek.texture.view_type
                 /\ k.texture.format = ek.texture.format
                 /\ k.texture.miplevel_idx = ek.texture.miplevel_idx
                 /\ k.texture.miplevel_count = ek.texture.miplevel_count
                 /\ float_equal(k.texture.miplevel_clamp,
                                ek.texture.miplevel_clamp)
                 /\ k.texture.layer_idx = ek.texture.layer_idx
                 /\ k.texture.layer_count = ek.texture.layer_count
                 /\ k.texture.components.r = ek.texture.components.r
                 /\ k.texture.components.g = ek.texture.components.g
                 /\ k.texture.components.b = ek.texture.components.b
                 /\ k.texture.components.a = ek.texture.components.a
                 /\ k.texture.allowed_swizzle = ek.texture.allowed_swizzle
           [] k.view_type = "SAMPLER" ->
                 /\ k.sampler.Filter = ek.sampler.Filter
                 /\ k.sampler.AddressU = ek.sampler.AddressU
                 /\ k.sampler.AddressV = ek.sampler.AddressV
                 /\ k.sampler.AddressW = ek.sampler.AddressW
                 /\ float_equal(k.sampler.MipLODBias, ek.sampler.MipLODBias)
                 /\ k.sampler.MaxAnisotropy = ek.sampler.MaxAnisotropy
                 /\ k.sampler.ComparisonFunc = ek.sampler.ComparisonFunc
                 /\ \/ ~d3d12_sampler_needs_border_color(k.sampler.AddressU,
                            k.sampler.AddressV, k.sampler.AddressW)
                    \/ \A i \in 1..4 :
                           float_equal(k.sampler.BorderColor[i],
                                       ek.sampler.BorderColor[i])
                 /\ float_equal(k.sampler.MinLOD, ek.sampler.MinLOD)
                 /\ float_equal(k.sampler.MaxLOD, ek.sampler.MaxLOD)
           [] OTHER -> FALSE

\* (uint32_t) of a float that is 0 or at least 1 and below 2^8: the integer
\* part of (1 + fraction / 2^23) * 2^(exponent - 127).
RECURSIVE pow2(_)
pow2(n) == IF n = 0 THEN 1 ELSE 2 * pow2(n - 1)

float_to_uint32(f) ==
    IF f.exponent < 127 THEN 0
    ELSE ((8388608 + f.fraction) * pow2(f.exponent - 127)) \div 8388608

\* miplevel_clamp >= 1.0f
float_at_least_one(f) ==
    /\ ~float_is_nan(f)
    /\ f.sign = 0
    /\ f.exponent >= 127

\* The VkImageViewCreateInfo that vkd3d_create_texture_view fills in from a
\* texture view key and passes to vkCreateImageView.  components is the
\* format's swizzle alone unless allowed_swizzle composes the key's with it.
VkImageViewCreateInfo(k) ==
    LET d == k.texture
        clamp_base_level ==
            LET c == float_to_uint32(d.miplevel_clamp)
            IN  IF c > d.miplevel_idx THEN c ELSE d.miplevel_idx
        end_level == d.miplevel_idx + d.miplevel_count
        new_base_level ==
            IF end_level - 1 < clamp_base_level
            THEN end_level - 1 ELSE clamp_base_level
        clamped == float_at_least_one(d.miplevel_clamp)
    IN  [image |-> d.image,
         viewType |-> d.view_type,
         format |-> d.format,
         components |-> IF d.allowed_swizzle
                        THEN <<"composed", d.components>>
                        ELSE <<"format">>,
         aspectMask |-> d.aspect_mask,
         baseMipLevel |-> IF clamped THEN new_base_level ELSE d.miplevel_idx,
         levelCount |-> IF clamped THEN end_level - new_base_level
                        ELSE d.miplevel_count,
         baseArrayLayer |-> d.layer_idx,
         layerCount |-> d.layer_count]

(***************************************************************************)
(* hashmap.h: the entry a probe for key k stops at, among the occupied     *)
(* entries; NoEntry when there is none.  hash_map_insert leaves an entry   *)
(* that already matches untouched and returns it.                          *)
(***************************************************************************)
MatchingEntries(m, k) ==
    {en \in m : /\ vkd3d_view_entry_hash(en.key) = vkd3d_view_entry_hash(k)
                /\ vkd3d_view_entry_compare(k, en.key)}

hash_map_find(m, k) ==
    IF MatchingEntries(m, k) = {} THEN NoEntry
    ELSE CHOOSE en \in MatchingEntries(m, k) : TRUE

(***************************************************************************)
(* The keys of one behaviour: a base key and one key that differs from it  *)
(* in a single field, or a buffer key next to an image key.                *)
(***************************************************************************)
ImageKey0 ==
    [NoKey EXCEPT !.view_type = "IMAGE",
                  !.texture = [ZeroTextureKey EXCEPT !.image = 1, !.view_type = 1,
                                   !.format = 1, !.aspect_mask = 1,
                                   !.miplevel_count = 1, !.layer_count = 1]]

BufferKey0 ==
    [NoKey EXCEPT !.view_type = "BUFFER",
                  !.buffer = [buffer |-> 1, format |-> 1, offset |-> 0, size |-> 16]]

ImageKeyVariants ==
    { [ImageKey0 EXCEPT !.texture.view_type = 2],
      [ImageKey0 EXCEPT !.texture.format = 2],
      [ImageKey0 EXCEPT !.texture.aspect_mask = 2],
      [ImageKey0 EXCEPT !.texture.miplevel_idx = 1],
      [ImageKey0 EXCEPT !.texture.miplevel_count = 2],
      [ImageKey0 EXCEPT !.texture.miplevel_clamp = FloatOne],
      [ImageKey0 EXCEPT !.texture.layer_idx = 1],
      [ImageKey0 EXCEPT !.texture.layer_count = 2],
      [ImageKey0 EXCEPT !.texture.components.r = 1],
      [ImageKey0 EXCEPT !.texture.components.g = 1],
      [ImageKey0 EXCEPT !.texture.components.b = 1],
      [ImageKey0 EXCEPT !.texture.components.a = 1],
      [ImageKey0 EXCEPT !.texture.allowed_swizzle = TRUE] }

BufferKeyVariants ==
    { [BufferKey0 EXCEPT !.buffer.format = 2],
      [BufferKey0 EXCEPT !.buffer.offset = 16],
      [BufferKey0 EXCEPT !.buffer.size = 32],
      [BufferKey0 EXCEPT !.view_type = "ACCELERATION_STRUCTURE"] }

KeyPools ==
    {{ImageKey0, k} : k \in ImageKeyVariants}
        \cup {{BufferKey0, k} : k \in BufferKeyVariants}

\* Sampler keys: D3D12_SAMPLER_DESC values that differ in their address
\* modes and border colours only, values that differ in another field, and
\* values with a NaN or a negative zero in a float field.
SamplerKey0 ==
    [NoKey EXCEPT !.view_type = "SAMPLER",
                  !.sampler = [ZeroSamplerKey EXCEPT !.Filter = 1,
                                   !.MaxAnisotropy = 1,
                                   !.MaxLOD = FloatOne]]

AddressModes ==
    {<<"WRAP", "WRAP", "WRAP">>, <<"CLAMP", "MIRROR", "MIRROR_ONCE">>,
     <<"BORDER", "WRAP", "WRAP">>, <<"WRAP", "BORDER", "WRAP">>,
     <<"WRAP", "WRAP", "BORDER">>, <<"BORDER", "BORDER", "BORDER">>}

SamplerKey(modes, color) ==
    [SamplerKey0 EXCEPT !.sampler.AddressU = modes[1],
                        !.sampler.AddressV = modes[2],
                        !.sampler.AddressW = modes[3],
                        !.sampler.BorderColor = color]

TransparentBlack == <<PositiveZero, PositiveZero, PositiveZero, PositiveZero>>
OpaqueBlack == <<PositiveZero, PositiveZero, PositiveZero, FloatOne>>
OpaqueWhite == <<FloatOne, FloatOne, FloatOne, FloatOne>>

SamplerKeyPools ==
    {{SamplerKey(m, TransparentBlack), SamplerKey(m, c)} :
         m \in AddressModes,
         c \in {OpaqueBlack, OpaqueWhite,
                [TransparentBlack EXCEPT ![1] = NegativeZero],
                [TransparentBlack EXCEPT ![2] = QuietNaN]}}
        \cup {{SamplerKey0, k} :
                  k \in {[SamplerKey0 EXCEPT !.sampler.Filter = 2],
                         [SamplerKey0 EXCEPT !.sampler.AddressV = "BORDER"],
                         [SamplerKey0 EXCEPT !.sampler.MaxAnisotropy = 2],
                         [SamplerKey0 EXCEPT !.sampler.ComparisonFunc = 1],
                         [SamplerKey0 EXCEPT !.sampler.MinLOD = SmallestFloat],
                         [SamplerKey0 EXCEPT !.sampler.MipLODBias = NegativeZero]}}
        \cup {{[SamplerKey0 EXCEPT !.sampler.MipLODBias = QuietNaN]},
              {[SamplerKey0 EXCEPT !.sampler.MinLOD = QuietNaN,
                                   !.sampler.AddressU = "BORDER"]}}

\* The pools used when several threads race on one view map.
ViewPools ==
    { {ImageKey0, [ImageKey0 EXCEPT !.texture.layer_idx = 1]},
      {ImageKey0, [ImageKey0 EXCEPT !.texture.aspect_mask = 2]} }

(***************************************************************************)
(* struct vkd3d_view and its reference count.                              *)
(*   refcount      view->refcount                                          *)
(*   alive         the native object exists and the struct is allocated    *)
(*   destroys      number of vkd3d_view_destroy calls on it                *)
(*   refsAtDestroy references still outstanding when it was destroyed,     *)
(*                 not counting the one the destroying call gave up        *)
(*   holders       references taken with vkd3d_view_incref and not yet     *)
(*                 released                                                *)
(***************************************************************************)
vkd3d_view_create(k) ==
    [key |-> k, refcount |-> 1, alive |-> TRUE, destroys |-> 0,
     refsAtDestroy |-> 0, holders |-> 0]

vkd3d_view_destroy(vs, v, outstanding) ==
    [vs EXCEPT ![v].alive = FALSE,
               ![v].destroys = @ + 1,
               ![v].refsAtDestroy = outstanding]

\* vkd3d_view_decref that only decrements.
vkd3d_view_decref_NoDestroy(vs, v) == [vs EXCEPT ![v].refcount = @ - 1]

\* InterlockedDecrement, then vkd3d_view_destroy when the count reached zero.
vkd3d_view_decref(vs, v) ==
    LET dec == [vs EXCEPT ![v].refcount = @ - 1]
    IN  IF dec[v].refcount = 0 THEN vkd3d_view_destroy(dec, v, 0) ELSE dec


(***************************************************************************)
(* vkd3d_rw_spinlock.h.  A reader announces itself and then waits for the  *)
(* writer bit to clear; a writer takes the lock only from the idle state.  *)
(***************************************************************************)
rw_spinlock_add_reader(l) == [l EXCEPT !.readers = @ + 1]

rw_spinlock_can_read(l) == ~l.writer

rw_spinlock_release_read(l) == [l EXCEPT !.readers = @ - 1]

rw_spinlock_can_write(l) == l.readers = 0 /\ ~l.writer

rw_spinlock_acquire_write(l) == [l EXCEPT !.writer = TRUE]

rw_spinlock_release_write(l) == [l EXCEPT !.writer = FALSE]

(***************************************************************************)
(* SpecView: initial state, vkd3d_view_map_init on a fresh resource.       *)
(***************************************************************************)
InitViewMap(pools) ==
    /\ spinlock = [readers |-> 0, writer |-> FALSE]
    /\ map = {}
    /\ used_count = 0
    /\ inserting = NoEntry
    /\ mapDestroyed = FALSE
    /\ views = <<>>
    /\ pc = [t \in Threads |-> "idle"]
    /\ key = [t \in Threads |-> NoKey]
    /\ view = [t \in Threads |-> NoView]
    /\ e = [t \in Threads |-> NoView]
    /\ redundant_view = [t \in Threads |-> NoView]
    /\ holds = [t \in Threads |-> "none"]
    /\ pool \in pools
    /\ served = [k \in pool |-> {}]
    /\ nativeUnderLock = FALSE
    /\ tornRead = FALSE
    /\ danglingUse = FALSE
    /\ teardownCount = 0

\* memset(object, 0, sizeof(*object)): no resource yet.
NoResource ==
    [state |-> "none", refcount |-> 0, internal_refcount |-> 0, flags |-> {},
     dimension |-> "NONE", vk_image |-> FALSE, vk_buffer |-> FALSE,
     va |-> FALSE, vk_memory |-> FALSE, vrs_view |-> FALSE]

Devices == [bufferDeviceAddress : BOOLEAN]

InitResource(devices) ==
    /\ device \in devices
    /\ resource = NoResource
    /\ live = {}
    /\ deviceRefs = 0
    /\ rpc = [t \in Threads |-> "idle"]
    /\ pubHeld = [t \in Threads |-> 0]
    /\ intHeld = [t \in Threads |-> 0]
    /\ destroyCount = 0
    /\ refsAtDestroy = 0
    /\ immediate = FALSE

\* No creation request has been made.
NoRequest == [desc |-> "none"]
NoAllocationInfo == [hr |-> "none"]
NoCreate == [op |-> "none"]

\* vkd3d_sampler_state_init: memset to zero, the mutex unlocked; no call of
\* vkd3d_sampler_state_allocate_descriptor_set made yet.
NoCall ==
    [pc |-> "idle", thread |-> 0, i |-> 0, vr |-> "none", descriptorPool |-> 0,
     vk_pool |-> 0, pool_count |-> 0, tried |-> 0, loop_vr |-> "none",
     created |-> 0, retried |-> 0, returned |-> "none", cause |-> "none"]

StaticDesc0 ==
    [Filter |-> 0, AddressU |-> 1, AddressV |-> 1, AddressW |-> 1,
     MipLODBias |-> PositiveZero, MaxAnisotropy |-> 1, ComparisonFunc |-> 1,
     BorderColor |-> 0, MinLOD |-> PositiveZero, MaxLOD |-> FloatOne]

\* The descriptions requested: a base one, one with another filter and one
\* whose MipLODBias is a NaN.
StaticSamplerDescs ==
    {StaticDesc0,
     [StaticDesc0 EXCEPT !.Filter = 1],
     [StaticDesc0 EXCEPT !.MipLODBias = QuietNaN]}

NoStaticCall == [pc |-> "idle", desc |-> "none", vk_sampler |-> 0]

InitSamplerIdle ==
    /\ sampler_state = [mutex |-> 0, vk_descriptor_pools |-> <<>>]
    /\ vk_pools = <<>>
    /\ sampler_call = [t \in Threads |-> NoCall]
    /\ returned_call = NoCall
    /\ unlockedCall = FALSE
    /\ static_map = {}
    /\ vk_samplers = <<>>
    /\ static_call = [t \in Threads |-> NoStaticCall]
    /\ static_returned = [d \in StaticSamplerDescs |-> {}]

\* A static variable starts at zero; nothing has been allocated.
InitCookieIdle ==
    /\ global_cookie_counter = 0
    /\ cookies = <<>>

\* No descriptor heap object has been created.
NoHeapObject ==
    [state |-> "none", refcount |-> 0, desc |-> "none", gpu_va |-> 0,
     vk_descriptor_pool |-> FALSE, vk_buffer |-> FALSE, vk_memory |-> FALSE,
     host_memory |-> FALSE]

NoTeardown ==
    [cleanups |-> 0, calls |-> <<>>, device_released |-> 0,
     refsAtCleanup |-> 0, hr |-> "none"]

InitHeapIdle ==
    /\ heap_object = NoHeapObject
    /\ heap_live = {}
    /\ heap_deviceRefs = 0
    /\ hpc = [t \in Threads |-> "idle"]
    /\ heapHeld = [t \in Threads |-> 0]
    /\ heap_teardown = NoTeardown

InitCreateIdle ==
    /\ request = NoRequest
    /\ allocation_info = NoAllocationInfo
    /\ created = NoCreate

(***************************************************************************)
(* Descriptor heap slots: d3d12_descriptor_heap_init_descriptors, the null *)
(* descriptor template and d3d12_desc_create_cbv.                          *)
(***************************************************************************)
\* What a descriptor write leaves alone.
DescOnly == UNCHANGED <<viewVars, refVars, createVars, samplerVars, staticVars, cookieVars, heapLifeVars>>

Slots == 0..(NumSlots - 1)

\* vkd3d_bindless_state_find_set_info_index(VKD3D_BINDLESS_SET_CBV)
vkd3d_bindless_state_find_set_info_index(state) ==
    CHOOSE i \in 1..Len(state.set_info) : state.set_info[i].cbv

\* vkd3d_bindless_state_get_cbv_descriptor_type
vkd3d_bindless_state_get_cbv_descriptor_type(state) ==
    state.set_info[vkd3d_bindless_state_find_set_info_index(state)].cbv_type

\* The layouts of device->bindless_state for a CBV_SRV_UAV heap: with
\* VK_VALVE_mutable_descriptor_type one mutable set that also takes CBVs,
\* or a mutable set beside a storage-buffer set for CBVs and raw buffers;
\* without it one set per descriptor type.  flags are the VKD3D_BINDLESS_SET_*
\* bits of a set and the device-wide bits of the state; ray_tracing is
\* d3d12_device_supports_ray_tracing_tier_1_0.
BindlessStates ==
    {[VALVE_mutable_descriptor_type |-> TRUE,
      flags |-> {"MUTABLE_TYPE", "RAW_VA_AUX_BUFFER", "TYPED_OFFSET_BUFFER"},
      ray_tracing |-> TRUE,
      set_info |-> <<[vk_descriptor_type |-> VK_DESCRIPTOR_TYPE_MUTABLE_VALVE,
                      flags |-> {"CBV", "SRV", "UAV", "BUFFER", "IMAGE"},
                      cbv |-> TRUE,
                      cbv_type |-> VK_DESCRIPTOR_TYPE_UNIFORM_BUFFER]>>],
     [VALVE_mutable_descriptor_type |-> TRUE,
      flags |-> {"MUTABLE_TYPE", "RAW_SSBO"},
      ray_tracing |-> FALSE,
      set_info |-> <<[vk_descriptor_type |-> VK_DESCRIPTOR_TYPE_MUTABLE_VALVE,
                      flags |-> {"SRV", "UAV", "BUFFER", "IMAGE", "AUX_BUFFER"},
                      cbv |-> FALSE,
                      cbv_type |-> VK_DESCRIPTOR_TYPE_UNIFORM_BUFFER],
                     [vk_descriptor_type |-> VK_DESCRIPTOR_TYPE_STORAGE_BUFFER,
                      flags |-> {"CBV", "SRV", "UAV", "RAW_SSBO"},
                      cbv |-> TRUE,
                      cbv_type |-> VK_DESCRIPTOR_TYPE_STORAGE_BUFFER]>>],
     [VALVE_mutable_descriptor_type |-> FALSE,
      flags |-> {"RAW_SSBO", "SSBO_OFFSET_BUFFER", "RAW_VA_AUX_BUFFER"},
      ray_tracing |-> TRUE,
      set_info |-> <<[vk_descriptor_type |-> VK_DESCRIPTOR_TYPE_UNIFORM_BUFFER,
                      flags |-> {"CBV"},
                      cbv |-> TRUE,
                      cbv_type |-> VK_DESCRIPTOR_TYPE_UNIFORM_BUFFER],
                     [vk_descriptor_type |-> VK_DESCRIPTOR_TYPE_SAMPLED_IMAGE,
                      flags |-> {"SRV", "IMAGE"},
                      cbv |-> FALSE,
                      cbv_type |-> VK_DESCRIPTOR_TYPE_UNIFORM_BUFFER],
                     [vk_descriptor_type |-> VK_DESCRIPTOR_TYPE_STORAGE_TEXEL_BUFFER,
                      flags |-> {"UAV", "BUFFER"},
                      cbv |-> FALSE,
                      cbv_type |-> VK_DESCRIPTOR_TYPE_UNIFORM_BUFFER],
                     [vk_descriptor_type |-> VK_DESCRIPTOR_TYPE_UNIFORM_TEXEL_BUFFER,
                      flags |-> {"SRV", "BUFFER"},
                      cbv |-> FALSE,
                      cbv_type |-> VK_DESCRIPTOR_TYPE_UNIFORM_BUFFER],
                     [vk_descriptor_type |-> VK_DESCRIPTOR_TYPE_STORAGE_IMAGE,
                      flags |-> {"UAV", "IMAGE"},
                      cbv |-> FALSE,
                      cbv_type |-> VK_DESCRIPTOR_TYPE_UNIFORM_BUFFER],
                     [vk_descriptor_type |-> VK_DESCRIPTOR_TYPE_STORAGE_BUFFER,
                      flags |-> {"SRV", "UAV", "RAW_SSBO"},
                      cbv |-> FALSE,
                      cbv_type |-> VK_DESCRIPTOR_TYPE_UNIFORM_BUFFER]>>]}

\* vkd3d_bindless_state_find_set_info_index for the set that takes all of
\* flags.
vkd3d_bindless_state_find_set_info_index_for(state, flags) ==
    CHOOSE i \in 1..Len(state.set_info) :
        /\ flags \subseteq state.set_info[i].flags
        /\ \A j \in 1..(i - 1) : ~(flags \subseteq state.set_info[j].flags)

\* d3d12_descriptor_heap_init for a CBV_SRV_UAV heap: one call of
\* d3d12_descriptor_heap_add_null_descriptor_template per set.  A bit mask is
\* kept as the set of its bit positions.
d3d12_descriptor_heap_init(state) ==
    [id |-> "descriptor_heap",
     bindless_state |-> state,
     null_descriptor_template |->
         [writes |-> [i \in 1..Len(state.set_info) |->
                          state.set_info[i].vk_descriptor_type],
          num_writes |-> Len(state.set_info),
          set_info_mask |-> 1..Len(state.set_info),
          has_mutable_descriptors |-> state.VALVE_mutable_descriptor_type],
     raw_va_aux_buffer |-> "RAW_VA_AUX_BUFFER" \in state.flags,
     buffer_ranges |-> state.flags \cap {"SSBO_OFFSET_BUFFER",
                                         "TYPED_OFFSET_BUFFER"} # {}]

\* d3d12_descriptor_heap_init_descriptors: memset to zero, then heap,
\* heap_offset and the template's set_info_mask.  view is info.view, which
\* shares its storage with the buffer handle of info.buffer; raw_va and
\* bound_range are the slot's entries of the heap's raw_va_aux_buffer and
\* buffer_ranges tables.
d3d12_descriptor_heap_init_descriptors(h) ==
    [i \in Slots |->
        [heap |-> h.id,
         heap_offset |-> i,
         cookie |-> 0,
         flags |-> {},
         set_info_mask |-> h.null_descriptor_template.set_info_mask,
         current_null_type |-> 0,
         view |-> 0,
         buffer |-> [offset |-> 0, range |-> 0],
         raw_va |-> 0,
         bound_range |-> [byte_offset |-> 0, byte_count |-> 0,
                          element_offset |-> 0, element_count |-> 0]]]

\* The buffers known to device->memory_allocator.va_map.
VaMap ==
    {[va |-> 1024, size |-> 384, cookie |-> 1],
     [va |-> 2048, size |-> 256, cookie |-> 2]}

\* vkd3d_va_map_deref
vkd3d_va_map_deref(location) ==
    CHOOSE r \in VaMap : r.va <= location /\ location < r.va + r.size

\* A min that returns its first argument.
min_First(a, b) == a

min(a, b) == IF a < b THEN a ELSE b

\* The D3D12_CONSTANT_BUFFER_VIEW_DESC values passed in; NoCbvDesc is a NULL
\* desc pointer.
NoCbvDesc == [BufferLocation |-> 0, SizeInBytes |-> 0, null |-> TRUE]

CbvDescs ==
    {NoCbvDesc}
    \cup [BufferLocation : {0, 1024, 1280},
          SizeInBytes : {100, 256},
          null : {FALSE}]

\* Placeholder types passed at the call sites of
\* d3d12_descriptor_heap_write_null_descriptor_template: by a CBV, by a
\* texture SRV and by a buffer UAV.
NullTypes(h) ==
    {vkd3d_bindless_state_get_cbv_descriptor_type(h.bindless_state),
     VK_DESCRIPTOR_TYPE_SAMPLED_IMAGE, VK_DESCRIPTOR_TYPE_STORAGE_TEXEL_BUFFER}

\* The result of a descriptor write: the slot, the number of
\* vkUpdateDescriptorSets calls made, and the descriptor types written.
Written(d, calls, types) == [desc |-> d, updates |-> calls, types |-> types]

\* d3d12_descriptor_heap_write_null_descriptor_template that writes whether
\* or not the slot is already null.
write_null_descriptor_template_NoSkip(h, d, vk_mutable_descriptor_type) ==
    LET t == h.null_descriptor_template
        ty == IF ~t.has_mutable_descriptors THEN 0
              ELSE vk_mutable_descriptor_type
    IN  Written([d EXCEPT !.cookie = 0, !.flags = {},
                          !.set_info_mask = t.set_info_mask,
                          !.current_null_type = ty,
                          !.view = 0,
                          !.buffer = [offset |-> 0, range |-> 0],
                          !.raw_va = IF h.raw_va_aux_buffer THEN 0 ELSE @],
                1, <<ty>>)

d3d12_descriptor_heap_write_null_descriptor_template(h, d, vk_mutable_descriptor_type) ==
    LET t == h.null_descriptor_template
        ty == IF ~t.has_mutable_descriptors THEN 0
              ELSE vk_mutable_descriptor_type
    IN  IF "NON_NULL" \notin d.flags /\ d.current_null_type = ty
        THEN Written(d, 0, <<>>)
        ELSE Written([d EXCEPT !.cookie = 0, !.flags = {},
                               !.set_info_mask = t.set_info_mask,
                               !.current_null_type = ty,
                               !.view = 0,
                               !.buffer = [offset |-> 0, range |-> 0],
                               !.raw_va = IF h.raw_va_aux_buffer THEN 0 ELSE @],
                     1,
                     [i \in 1..t.num_writes |->
                         IF t.writes[i] = VK_DESCRIPTOR_TYPE_MUTABLE_VALVE
                         THEN ty ELSE t.writes[i]])

\* d3d12_desc_create_cbv that leaves the slot's cookie as it was.
d3d12_desc_create_cbv_KeepsCookie(h, d, desc) ==
    LET vk_descriptor_type ==
            vkd3d_bindless_state_get_cbv_descriptor_type(h.bindless_state)
    IN  IF desc.null THEN Written(d, 0, <<>>)
        ELSE IF desc.SizeInBytes % D3D12_CONSTANT_BUFFER_DATA_PLACEMENT_ALIGNMENT # 0
        THEN Written(d, 0, <<>>)
        ELSE IF desc.BufferLocation = 0
             THEN d3d12_descriptor_heap_write_null_descriptor_template(
                      h, d, vk_descriptor_type)
        ELSE LET res == vkd3d_va_map_deref(desc.BufferLocation)
                 offset == desc.BufferLocation - res.va
             IN  Written([d EXCEPT
                              !.set_info_mask =
                                  {vkd3d_bindless_state_find_set_info_index(
                                       h.bindless_state)},
                              !.flags = {"OFFSET_RANGE", "NON_NULL"},
                              !.view = res.cookie,
                              !.buffer = [offset |-> offset,
                                          range |-> min(desc.SizeInBytes,
                                                        res.size - offset)]],
                         1, <<vk_descriptor_type>>)

d3d12_desc_create_cbv(h, d, desc) ==
    LET vk_descriptor_type ==
            vkd3d_bindless_state_get_cbv_descriptor_type(h.bindless_state)
    IN  IF desc.null THEN Written(d, 0, <<>>)
        ELSE IF desc.SizeInBytes % D3D12_CONSTANT_BUFFER_DATA_PLACEMENT_ALIGNMENT # 0
        THEN Written(d, 0, <<>>)
        ELSE IF desc.BufferLocation = 0
             THEN d3d12_descriptor_heap_write_null_descriptor_template(
                      h, d, vk_descriptor_type)
        ELSE LET res == vkd3d_va_map_deref(desc.BufferLocation)
                 offset == desc.BufferLocation - res.va
             IN  Written([d EXCEPT
                              !.cookie = res.cookie,
                              !.set_info_mask =
                                  {vkd3d_bindless_state_find_set_info_index(
                                       h.bindless_state)},
                              !.flags = {"OFFSET_RANGE", "NON_NULL"},
                              !.view = res.cookie,
                              !.buffer = [offset |-> offset,
                                          range |-> min(desc.SizeInBytes,
                                                        res.size - offset)]],
                         1, <<vk_descriptor_type>>)

\* d3d12_desc_create_cbv goes past its two early returns.
CbvDescAccepted(desc) ==
    /\ ~desc.null
    /\ desc.SizeInBytes % D3D12_CONSTANT_BUFFER_DATA_PLACEMENT_ALIGNMENT = 0

\* What a null-template write that was not skipped stores.
NullStored(h) ==
    {"metadata", "info", "native"}
    \cup (IF h.raw_va_aux_buffer THEN {"raw_va"} ELSE {})

\* The last descriptor operation: the slot written (and the source slot of a
\* copy), the number of vkUpdateDescriptorSets calls, and which of the
\* slot's metadata, info, native descriptors and side-table entries were
\* stored to.  A null-template or CBV write also records the slot as it was
\* before.
NoWrite ==
    [op |-> "none", slot |-> 0, type |-> 0, accepted |-> FALSE, location |-> 0,
     before |-> [heap |-> "none", heap_offset |-> 0, cookie |-> 0, flags |-> {},
                 set_info_mask |-> {}, current_null_type |-> 0, view |-> 0,
                 buffer |-> [offset |-> 0, range |-> 0], raw_va |-> 0,
                 bound_range |-> [byte_offset |-> 0, byte_count |-> 0,
                                  element_offset |-> 0, element_count |-> 0]],
     size |-> 0, updates |-> 0, src |-> 0, wrote |-> {}]

InitDesc(states) ==
    /\ \E state \in states : heap = d3d12_descriptor_heap_init(state)
    /\ descs = d3d12_descriptor_heap_init_descriptors(heap)
    /\ lastWrite = NoWrite

\* The heap of the specifications that write no descriptor.
InitDescIdle ==
    InitDesc({CHOOSE state \in BindlessStates :
                  state.VALVE_mutable_descriptor_type
                  /\ Len(state.set_info) = 1})

\* A descriptor write whose resource is NULL: the null template with the
\* placeholder type of the call site.
NullDescriptorWrite(s, ty) ==
    /\ DescOnly
    /\ LET w == d3d12_descriptor_heap_write_null_descriptor_template(
                    heap, descs[s], ty)
       IN  /\ descs' = [descs EXCEPT ![s] = w.desc]
           /\ lastWrite' = [op |-> "null", slot |-> s, type |-> ty,
                            accepted |-> TRUE, location |-> 0,
                            before |-> descs[s],
                            size |-> 0, updates |-> w.updates, src |-> s,
                            wrote |-> IF w.updates = 0 THEN {}
                                      ELSE NullStored(heap)]
    /\ UNCHANGED heap

\* ID3D12Device::CreateConstantBufferView into slot s.
CreateConstantBufferView(s, desc) ==
    /\ DescOnly
    /\ LET w == d3d12_desc_create_cbv(heap, descs[s], desc)
       IN  /\ descs' = [descs EXCEPT ![s] = w.desc]
           /\ lastWrite' =
                  [op |-> "cbv", slot |-> s,
                   type |-> vkd3d_bindless_state_get_cbv_descriptor_type(
                                heap.bindless_state),
                   accepted |-> CbvDescAccepted(desc),
                   location |-> IF CbvDescAccepted(desc)
                                THEN desc.BufferLocation ELSE 0,
                   before |-> descs[s],
                   size |-> IF CbvDescAccepted(desc)
                            THEN desc.SizeInBytes ELSE 0,
                   updates |-> w.updates, src |-> s,
                   wrote |-> IF w.updates = 0 THEN {}
                             ELSE IF desc.BufferLocation = 0
                                  THEN NullStored(heap)
                             ELSE {"metadata", "info", "native"}]
    /\ UNCHANGED heap

NextDesc ==
    \/ \E s \in Slots : \E ty \in NullTypes(heap) : NullDescriptorWrite(s, ty)
    \/ \E s \in Slots : \E desc \in CbvDescs : CreateConstantBufferView(s, desc)

InitDescSpec ==
    /\ InitViewMap({{}})
    /\ InitResource({[bufferDeviceAddress |-> TRUE]})
    /\ InitDesc(BindlessStates)
    /\ InitCreateIdle
    /\ InitSamplerIdle
    /\ InitCookieIdle
    /\ InitHeapIdle

SpecDesc == InitDescSpec /\ [][NextDesc]_vars

(***************************************************************************)
(* Shader res views, unordered access views and descriptor copies.    *)
(***************************************************************************)
\* The resources a view is created on; NoDescResource is a NULL resource
\* pointer.
NoDescResource == [cookie |-> 0, dimension |-> "UNKNOWN", Width |-> 0]

BufferResource == [cookie |-> 1, dimension |-> "BUFFER", Width |-> 384]

TextureResource == [cookie |-> 3, dimension |-> "TEXTURE2D", Width |-> 4]

DescResources == {NoDescResource, BufferResource, TextureResource}

d3d12_resource_is_buffer(res) == res.dimension = "BUFFER"

\* The cookie of the view that resource->view_map hands out for a key of
\* the given kind: one view, and so one cookie, per resource and key.
ViewCookie(res, kind) ==
    10 * res.cookie
        + (CASE kind = "buffer_srv" -> 1
             [] kind = "buffer_uav" -> 2
             [] kind = "texture_srv" -> 3
             [] kind = "texture_uav" -> 4)

\* d3d12_device_get_ssbo_alignment
SsboAlignment == 16

\* The byte_count of the view format, DXGI_FORMAT_R32_UINT.
FormatByteCount == 4

\* vkd3d_buffer_view_get_bound_range_ssbo for a resource that is not NULL and
\* is bound at mem.offset 0.
vkd3d_buffer_view_get_bound_range_ssbo(res, offset, range) ==
    LET alignment == SsboAlignment
        aligned_begin == offset - (offset % alignment)
        rounded == offset + range + alignment - 1
        aligned_end == min(rounded - (rounded % alignment), res.Width)
    IN  [vk_buffer |-> [offset |-> aligned_begin,
                        range |-> aligned_end - aligned_begin],
         bound_range |-> [byte_offset |-> offset - aligned_begin,
                          byte_count |-> range,
                          element_offset |-> 0, element_count |-> 0]]

\* limits.maxTexelBufferElements of the device: one below a power of two, as
\* the limit 2^32 - 1 of the drivers that report no limit is.
MaxTexelBufferElements == 7

\* vkd3d_log2i: the position of the highest bit set in x, x > 0.
RECURSIVE vkd3d_log2i(_)
vkd3d_log2i(x) == IF x <= 1 THEN 0 ELSE 1 + vkd3d_log2i(x \div 2)

\* 1u << vkd3d_log2i(max_element_headroom)
ElementAlign(max_element_headroom) == pow2(vkd3d_log2i(max_element_headroom))

\* vkd3d_buffer_view_get_aligned_view: the bound range stored for the
\* descriptor and the first_element and num_elements the buffer view is
\* created with.  byte_count is that of the view format, 0 for a structured
\* buffer (format == 0), whose range is rescaled to 32-bit words.  With
\* VKD3D_TYPED_OFFSET_BUFFER a range smaller than the resource is quantized to
\* the largest power of two that fits the headroom below max_elements.
vkd3d_buffer_view_get_aligned_view(state, res, byte_count, first_element, num_elements, structured_stride, bound_range) ==
    IF "TYPED_OFFSET_BUFFER" \notin state.flags
    THEN [bound_range |-> bound_range, first_element |-> first_element,
          num_elements |-> num_elements]
    ELSE LET max_elements == MaxTexelBufferElements
             first == IF byte_count # 0 THEN first_element
                      ELSE (first_element * structured_stride) \div 4
             num == IF byte_count # 0 THEN num_elements
                    ELSE (num_elements * structured_stride) \div 4
             max_resource_elements ==
                 res.Width \div (IF byte_count # 0 THEN byte_count ELSE 4)
             element_align == ElementAlign(max_elements - num + 1)
             begin_range == first - (first % element_align)
             rounded == first + num + element_align - 1
             end_range == min(rounded - (rounded % element_align),
                              max_resource_elements)
         IN  IF num > max_elements \/ num >= max_resource_elements
             THEN [bound_range |-> [bound_range EXCEPT
                                       !.element_offset = 0,
                                       !.element_count = num],
                   first_element |-> first, num_elements |-> num]
             ELSE [bound_range |-> [bound_range EXCEPT
                                       !.element_offset = first - begin_range,
                                       !.element_count = num],
                   first_element |-> begin_range,
                   num_elements |-> end_range - begin_range]

\* The D3D12_SHADER_RESOURCE_VIEW_DESC values passed in.  NoViewDesc is a NULL
\* desc pointer; view_created tells whether the native view can be made
\* (init_default_texture_view_desc and vkd3d_view_map_create_view, or
\* vkd3d_create_buffer_view_for_resource, succeed).  A buffer view covers the
\* whole buffer.
NoViewDesc ==
    [null |-> TRUE, ViewDimension |-> "UNKNOWN", Location |-> 0,
     view_created |-> FALSE, counter |-> "none"]

SrvDescs ==
    {NoViewDesc}
    \cup [null : {FALSE}, ViewDimension : {"BUFFER", "TEXTURE2D"},
          Location : {0}, view_created : BOOLEAN, counter : {"none"}]
    \cup [null : {FALSE},
          ViewDimension : {"RAYTRACING_ACCELERATION_STRUCTURE"},
          Location : {0, 4096}, view_created : {TRUE}, counter : {"none"}]

\* The D3D12_UNORDERED_ACCESS_VIEW_DESC values passed in; counter tells
\* whether a counter resource comes with it, and whether its view can be made.
UavDescs ==
    {NoViewDesc}
    \cup [null : {FALSE}, ViewDimension : {"BUFFER", "TEXTURE2D"},
          Location : {0}, view_created : BOOLEAN, counter : {"none"}]
    \cup [null : {FALSE}, ViewDimension : {"BUFFER"},
          Location : {0}, view_created : {TRUE}, counter : {"made", "failed"}]

\* The result of an SRV or UAV write: as Written, with what was stored to and
\* whether the view was resolved (FALSE on each return after a WARN, a FIXME
\* or a failed view creation).
Resolved(w, wrote, resolved) ==
    [desc |-> w.desc, updates |-> w.updates, types |-> w.types,
     wrote |-> wrote, resolved |-> resolved]

\* A call of d3d12_descriptor_heap_write_null_descriptor_template from an SRV
\* or UAV write.
ResolvedNull(h, d, ty) ==
    LET w == d3d12_descriptor_heap_write_null_descriptor_template(h, d, ty)
    IN  Resolved(w, IF w.updates = 0 THEN {} ELSE NullStored(h), TRUE)

\* A return that leaves the descriptor as it found it.
Unresolved(d) == Resolved(Written(d, 0, <<>>), {}, FALSE)

\* The acceleration-structure branch of vkd3d_create_buffer_srv that keeps
\* the slot's cookie.
vkd3d_create_buffer_srv_rtas_KeepsCookie(h, d, desc) ==
    IF desc.Location = 0
    THEN ResolvedNull(h, d, VK_DESCRIPTOR_TYPE_SAMPLED_IMAGE)
    ELSE IF h.bindless_state.ray_tracing
    THEN Resolved(Written([d EXCEPT !.raw_va = desc.Location,
                                    !.flags = {"RAW_VA_AUX_BUFFER",
                                               "NON_NULL"},
                                    !.set_info_mask = {}],
                          0, <<>>),
                  {"raw_va", "metadata"}, TRUE)
    ELSE Unresolved(d)

\* The acceleration-structure branch of vkd3d_create_buffer_srv, lines
\* 3803-3835.
vkd3d_create_buffer_srv_rtas(h, d, desc) ==
    IF desc.Location = 0
    THEN ResolvedNull(h, d, VK_DESCRIPTOR_TYPE_SAMPLED_IMAGE)
    ELSE IF h.bindless_state.ray_tracing
    THEN Resolved(Written([d EXCEPT !.raw_va = desc.Location,
                                    !.flags = {"RAW_VA_AUX_BUFFER",
                                               "NON_NULL"},
                                    !.set_info_mask = {},
                                    !.cookie = 0],
                          0, <<>>),
                  {"raw_va", "metadata"}, TRUE)
    ELSE Unresolved(d)

vkd3d_create_buffer_srv(h, d, res, desc) ==
    LET state == h.bindless_state
        ssbo == "RAW_SSBO" \in state.flags
        num_elements == res.Width \div FormatByteCount
        r == vkd3d_buffer_view_get_bound_range_ssbo(
                 res, 0, num_elements * FormatByteCount)
        \* lines 3850-3881
        raw == IF ssbo
               THEN [d EXCEPT
                        !.buffer = r.vk_buffer,
                        !.view = res.cookie,
                        !.cookie = res.cookie,
                        !.set_info_mask =
                            {vkd3d_bindless_state_find_set_info_index_for(
                                 state, {"SRV", "RAW_SSBO"})},
                        !.flags =
                            {"OFFSET_RANGE", "NON_NULL"}
                            \cup (IF "SSBO_OFFSET_BUFFER" \in state.flags
                                  THEN {"BUFFER_OFFSET"} ELSE {})]
               ELSE [d EXCEPT !.set_info_mask = {}, !.flags = {}]
        bound_range == vkd3d_buffer_view_get_aligned_view(
                           state, res, FormatByteCount, 0, num_elements, 0,
                           IF ssbo THEN r.bound_range
                           ELSE [byte_offset |-> 0, byte_count |-> 0,
                                 element_offset |-> 0, element_count |-> 0]
                       ).bound_range
        flags == raw.flags \cup {"VIEW", "NON_NULL"}
                     \cup (IF "TYPED_OFFSET_BUFFER" \in state.flags
                           THEN {"BUFFER_OFFSET"} ELSE {})
    IN  IF desc.null THEN Unresolved(d)
        ELSE IF desc.ViewDimension = "RAYTRACING_ACCELERATION_STRUCTURE"
        THEN vkd3d_create_buffer_srv_rtas(h, d, desc)
        ELSE IF desc.ViewDimension # "BUFFER" THEN Unresolved(d)
        ELSE IF res = NoDescResource
        THEN ResolvedNull(h, d, VK_DESCRIPTOR_TYPE_UNIFORM_TEXEL_BUFFER)
        ELSE IF ~desc.view_created
        THEN Resolved(Written(raw, 0, <<>>),
                      {"metadata"} \cup (IF ssbo THEN {"info"} ELSE {}),
                      FALSE)
        ELSE Resolved(
                 Written([raw EXCEPT
                             !.view = ViewCookie(res, "buffer_srv"),
                             !.cookie = ViewCookie(res, "buffer_srv"),
                             !.set_info_mask =
                                 @ \cup
                                 {vkd3d_bindless_state_find_set_info_index_for(
                                      state, {"SRV", "BUFFER"})},
                             !.flags = flags,
                             !.bound_range =
                                 IF "BUFFER_OFFSET" \in flags
                                 THEN bound_range ELSE @],
                         1,
                         (IF ssbo THEN <<VK_DESCRIPTOR_TYPE_STORAGE_BUFFER>>
                          ELSE <<>>)
                         \o <<VK_DESCRIPTOR_TYPE_UNIFORM_TEXEL_BUFFER>>),
                 {"metadata", "info", "native"}
                 \cup (IF "BUFFER_OFFSET" \in flags
                       THEN {"buffer_ranges"} ELSE {}),
                 TRUE)

vkd3d_create_texture_srv(h, d, res, desc) ==
    IF res = NoDescResource
    THEN ResolvedNull(h, d, VK_DESCRIPTOR_TYPE_SAMPLED_IMAGE)
    ELSE IF ~desc.view_created THEN Unresolved(d)
    ELSE Resolved(
             Written([d EXCEPT
                         !.view = ViewCookie(res, "texture_srv"),
                         !.cookie = ViewCookie(res, "texture_srv"),
                         !.set_info_mask =
                             {vkd3d_bindless_state_find_set_info_index_for(
                                  h.bindless_state, {"SRV", "IMAGE"})},
                         !.flags = {"VIEW", "NON_NULL"}],
                     1, <<VK_DESCRIPTOR_TYPE_SAMPLED_IMAGE>>),
             {"metadata", "info", "native"}, TRUE)

d3d12_desc_create_srv(h, d, res, desc) ==
    IF res = NoDescResource /\ desc.null THEN Unresolved(d)
    ELSE IF (IF res # NoDescResource
             THEN d3d12_resource_is_buffer(res)
             ELSE desc.ViewDimension \in
                      {"BUFFER", "RAYTRACING_ACCELERATION_STRUCTURE"})
    THEN vkd3d_create_buffer_srv(h, d, res, desc)
    ELSE vkd3d_create_texture_srv(h, d, res, desc)

\* The device address of the counter resource, the second buffer of VaMap.
vkd3d_get_buffer_device_address == 2048

vkd3d_create_buffer_uav(h, d, res, desc) ==
    LET state == h.bindless_state
        ssbo == "RAW_SSBO" \in state.flags
        raw_va == "RAW_VA_AUX_BUFFER" \in state.flags
        num_elements == res.Width \div FormatByteCount
        r == vkd3d_buffer_view_get_bound_range_ssbo(
                 res, 0, num_elements * FormatByteCount)
        \* lines 4159-4193
        raw == IF ssbo
               THEN [d EXCEPT
                        !.buffer = r.vk_buffer,
                        !.view = res.cookie,
                        !.cookie = res.cookie,
                        !.set_info_mask =
                            {vkd3d_bindless_state_find_set_info_index_for(
                                 state, {"UAV", "RAW_SSBO"})},
                        !.flags =
                            {"RAW_VA_AUX_BUFFER", "NON_NULL", "OFFSET_RANGE"}
                            \cup (IF "SSBO_OFFSET_BUFFER" \in state.flags
                                  THEN {"BUFFER_OFFSET"} ELSE {})]
               ELSE [d EXCEPT !.set_info_mask = {},
                              !.flags = {"RAW_VA_AUX_BUFFER", "NON_NULL"}]
        bound_range == vkd3d_buffer_view_get_aligned_view(
                           state, res, FormatByteCount, 0, num_elements, 0,
                           IF ssbo THEN r.bound_range
                           ELSE [byte_offset |-> 0, byte_count |-> 0,
                                 element_offset |-> 0, element_count |-> 0]
                       ).bound_range
        flags == raw.flags \cup {"VIEW"}
                     \cup (IF "TYPED_OFFSET_BUFFER" \in state.flags
                           THEN {"BUFFER_OFFSET"} ELSE {})
        \* lines 4203-4231
        typed == [raw EXCEPT
                     !.view = ViewCookie(res, "buffer_uav"),
                     !.cookie = ViewCookie(res, "buffer_uav"),
                     !.set_info_mask =
                         @ \cup {vkd3d_bindless_state_find_set_info_index_for(
                                     state, {"UAV", "BUFFER"})},
                     !.flags = flags,
                     !.bound_range = IF "BUFFER_OFFSET" \in flags
                                     THEN bound_range ELSE @]
        stored == {"metadata", "info"}
                  \cup (IF "BUFFER_OFFSET" \in flags
                        THEN {"buffer_ranges"} ELSE {})
        types == (IF ssbo THEN <<VK_DESCRIPTOR_TYPE_STORAGE_BUFFER>>
                  ELSE <<>>)
                 \o <<VK_DESCRIPTOR_TYPE_STORAGE_TEXEL_BUFFER>>
    IN  IF desc.null THEN Unresolved(d)
        ELSE IF desc.ViewDimension # "BUFFER" THEN Unresolved(d)
        ELSE IF res = NoDescResource
        THEN ResolvedNull(h, d, VK_DESCRIPTOR_TYPE_STORAGE_TEXEL_BUFFER)
        ELSE IF ~desc.view_created
        THEN Resolved(Written(raw, 0, <<>>),
                      {"metadata"} \cup (IF ssbo THEN {"info"} ELSE {}),
                      FALSE)
        ELSE IF raw_va
        THEN Resolved(
                 Written([typed EXCEPT
                             !.raw_va =
                                 IF desc.counter = "none" THEN 0
                                 ELSE vkd3d_get_buffer_device_address],
                         1, types),
                 stored \cup {"raw_va", "native"}, TRUE)
        ELSE IF desc.counter = "failed"
        THEN Resolved(Written(typed, 0, <<>>), stored, FALSE)
        ELSE Resolved(
                 Written(typed, 1,
                         types \o <<VK_DESCRIPTOR_TYPE_STORAGE_TEXEL_BUFFER>>),
                 stored \cup {"native"}, TRUE)

vkd3d_create_texture_uav(h, d, res, desc) ==
    IF res = NoDescResource
    THEN ResolvedNull(h, d, VK_DESCRIPTOR_TYPE_STORAGE_IMAGE)
    ELSE IF ~desc.view_created THEN Unresolved(d)
    ELSE Resolved(
             Written([d EXCEPT
                         !.view = ViewCookie(res, "texture_uav"),
                         !.cookie = ViewCookie(res, "texture_uav"),
                         !.set_info_mask =
                             {vkd3d_bindless_state_find_set_info_index_for(
                                  h.bindless_state, {"UAV", "IMAGE"})},
                         !.flags = {"VIEW", "NON_NULL"}],
                     1, <<VK_DESCRIPTOR_TYPE_STORAGE_IMAGE>>),
             {"metadata", "info", "native"}, TRUE)

d3d12_desc_create_uav(h, d, res, desc) ==
    IF res = NoDescResource /\ desc.null THEN Unresolved(d)
    ELSE IF (IF res # NoDescResource
             THEN d3d12_resource_is_buffer(res)
             ELSE desc.ViewDimension = "BUFFER")
    THEN vkd3d_create_buffer_uav(h, d, res, desc)
    ELSE vkd3d_create_texture_uav(h, d, res, desc)

\* The result of a descriptor copy: the destination slot, the number of
\* vkUpdateDescriptorSets calls, the number of VkCopyDescriptorSet entries
\* and what was stored to.
Copied(d, calls, copies, wrote) ==
    [desc |-> d, updates |-> calls, copies |-> copies, wrote |-> wrote]

\* *dst = *src: the whole struct d3d12_desc is assigned.
CopyMetadataAndInfo_WholeDescriptor(dst, src) == src

\* dst->metadata = src->metadata; dst->info = src->info
CopyMetadataAndInfo(dst, src) ==
    [dst EXCEPT !.cookie = src.cookie,
                !.flags = src.flags,
                !.set_info_mask = src.set_info_mask,
                !.current_null_type = src.current_null_type,
                !.view = src.view,
                !.buffer = src.buffer]

\* A needs_update that compares the cookies only.
needs_update_CookieOnly(dst, src) == src.cookie # dst.cookie

\* needs_update of d3d12_desc_copy_single, lines 2890-2907.
needs_update(dst, src) ==
    IF src.cookie # dst.cookie THEN TRUE
    ELSE IF "RAW_VA_AUX_BUFFER" \in src.flags \/ src.flags # dst.flags
    THEN TRUE
    ELSE IF "OFFSET_RANGE" \in src.flags
    THEN dst.buffer.offset # src.buffer.offset
         \/ dst.buffer.range # src.buffer.range
    ELSE FALSE

\* d3d12_desc_copy_single whose needs_update looks at cookie and flags only.
d3d12_desc_copy_single_NoRangeCheck(h, dst, src) ==
    LET update == \/ src.cookie # dst.cookie
                  \/ "RAW_VA_AUX_BUFFER" \in src.flags
                  \/ src.flags # dst.flags
        raw == "RAW_VA_AUX_BUFFER" \in src.flags
        copy_count == Cardinality(src.set_info_mask)
                      + (IF raw /\ ~h.raw_va_aux_buffer THEN 1 ELSE 0)
        updated == IF ~update THEN dst
                   ELSE [CopyMetadataAndInfo(dst, src) EXCEPT
                            !.raw_va = IF raw /\ h.raw_va_aux_buffer
                                       THEN src.raw_va ELSE @]
        ranged == "BUFFER_OFFSET" \in src.flags
    IN  Copied([updated EXCEPT !.bound_range =
                                   IF ranged THEN src.bound_range ELSE @],
               IF update /\ copy_count > 0 THEN 1 ELSE 0,
               IF update THEN copy_count ELSE 0,
               (IF update THEN {"metadata", "info"} ELSE {})
               \cup (IF update /\ copy_count > 0 THEN {"native"} ELSE {})
               \cup (IF update /\ raw /\ h.raw_va_aux_buffer
                     THEN {"raw_va"} ELSE {})
               \cup (IF ranged THEN {"buffer_ranges"} ELSE {}))

d3d12_desc_copy_single(h, dst, src) ==
    LET update == needs_update(dst, src)
        raw == "RAW_VA_AUX_BUFFER" \in src.flags
        copy_count == Cardinality(src.set_info_mask)
                      + (IF raw /\ ~h.raw_va_aux_buffer THEN 1 ELSE 0)
        updated == IF ~update THEN dst
                   ELSE [CopyMetadataAndInfo(dst, src) EXCEPT
                            !.raw_va = IF raw /\ h.raw_va_aux_buffer
                                       THEN src.raw_va ELSE @]
        ranged == "BUFFER_OFFSET" \in src.flags
    IN  Copied([updated EXCEPT !.bound_range =
                                   IF ranged THEN src.bound_range ELSE @],
               IF update /\ copy_count > 0 THEN 1 ELSE 0,
               IF update THEN copy_count ELSE 0,
               (IF update THEN {"metadata", "info"} ELSE {})
               \cup (IF update /\ copy_count > 0 THEN {"native"} ELSE {})
               \cup (IF update /\ raw /\ h.raw_va_aux_buffer
                     THEN {"raw_va"} ELSE {})
               \cup (IF ranged THEN {"buffer_ranges"} ELSE {}))

\* d3d12_desc_copy_range with count 1 on a CBV_SRV_UAV heap.
d3d12_desc_copy_range(h, dst, src) ==
    LET state == h.bindless_state
        raw == "RAW_VA_AUX_BUFFER" \in state.flags
        ranged == state.flags \cap {"TYPED_OFFSET_BUFFER",
                                    "SSBO_OFFSET_BUFFER"} # {}
        copy_count == Cardinality(src.set_info_mask)
                      + (IF raw THEN 0 ELSE 1)
    IN  Copied([CopyMetadataAndInfo(dst, src) EXCEPT
                   !.raw_va = IF raw THEN src.raw_va ELSE @,
                   !.bound_range = IF ranged THEN src.bound_range ELSE @],
               IF copy_count > 0 THEN 1 ELSE 0,
               copy_count,
               {"metadata", "info"}
               \cup (IF copy_count > 0 THEN {"native"} ELSE {})
               \cup (IF raw THEN {"raw_va"} ELSE {})
               \cup (IF ranged THEN {"buffer_ranges"} ELSE {}))

\* d3d12_desc_copy of one descriptor.
d3d12_desc_copy(h, dst, src) ==
    IF "MUTABLE_TYPE" \in h.bindless_state.flags
    THEN d3d12_desc_copy_range(h, dst, src)
    ELSE d3d12_desc_copy_single(h, dst, src)

\* ID3D12Device::CreateShaderResourceView into slot s.
CreateShaderResourceView(s, res, desc) ==
    /\ DescOnly
    /\ LET w == d3d12_desc_create_srv(heap, descs[s], res, desc)
       IN  /\ descs' = [descs EXCEPT ![s] = w.desc]
           /\ lastWrite' =
                  [op |-> IF desc.ViewDimension =
                                 "RAYTRACING_ACCELERATION_STRUCTURE"
                             /\ (res = NoDescResource
                                 \/ d3d12_resource_is_buffer(res))
                          THEN "srv_rtas" ELSE "srv",
                   slot |-> s, type |-> 0,
                   accepted |-> w.resolved, location |-> desc.Location,
                   before |-> NoWrite.before, size |-> 0,
                   updates |-> w.updates, src |-> s,
                   wrote |-> w.wrote]
    /\ UNCHANGED heap

\* ID3D12Device::CreateUnorderedAccessView into slot s.
CreateUnorderedAccessView(s, res, desc) ==
    /\ DescOnly
    /\ LET w == d3d12_desc_create_uav(heap, descs[s], res, desc)
       IN  /\ descs' = [descs EXCEPT ![s] = w.desc]
           /\ lastWrite' =
                  [op |-> "uav", slot |-> s, type |-> 0,
                   accepted |-> w.resolved, location |-> 0,
                   before |-> NoWrite.before, size |-> 0,
                   updates |-> w.updates, src |-> s,
                   wrote |-> w.wrote]
    /\ UNCHANGED heap

\* ID3D12Device::CopyDescriptorsSimple of one descriptor from slot s to
\* slot d.
CopyDescriptors(d, s) ==
    /\ DescOnly
    /\ d # s
    /\ LET w == d3d12_desc_copy(heap, descs[d], descs[s])
       IN  /\ descs' = [descs EXCEPT ![d] = w.desc]
           /\ lastWrite' =
                  [op |-> "copy", slot |-> d, type |-> 0,
                   accepted |-> TRUE, location |-> 0,
                   before |-> NoWrite.before, size |-> 0,
                   updates |-> w.updates,
                   src |-> s,
                   wrote |-> w.wrote]
    /\ UNCHANGED heap

\* Views are written to the first descriptor of the heap.  The others stay
\* as d3d12_descriptor_heap_init_descriptors left them.
ViewSlots == {s \in Slots : s = 0}

NextDescViews ==
    \/ \E s \in ViewSlots : \E res \in DescResources : \E desc \in SrvDescs :
           CreateShaderResourceView(s, res, desc)
    \/ \E s \in ViewSlots : \E res \in DescResources : \E desc \in UavDescs :
           CreateUnorderedAccessView(s, res, desc)

SpecDescViews == InitDescSpec /\ [][NextDescViews]_vars

\* Descriptors are copied between the first two descriptors of the heap,
\* which hold CBVs and views of the whole of BufferResource.
CopySlots == {s \in Slots : s < 2}

BufferViewDescs ==
    {desc \in SrvDescs :
        ~desc.null /\ desc.ViewDimension = "BUFFER" /\ desc.view_created}

NextDescCopy ==
    \/ \E s \in CopySlots : \E desc \in CbvDescs :
           CreateConstantBufferView(s, desc)
    \/ \E s \in CopySlots : \E desc \in BufferViewDescs :
           CreateShaderResourceView(s, BufferResource, desc)
    \/ \E s \in CopySlots : \E desc \in BufferViewDescs :
           CreateUnorderedAccessView(s, BufferResource, desc)
    \/ \E d \in CopySlots : \E s \in CopySlots : CopyDescriptors(d, s)

SpecDescCopy == InitDescSpec /\ [][NextDescCopy]_vars

\* A second descriptor heap of the same device, as applications keep for
\* staging, and the descriptors it holds: a CBV in every slot.
StagingHeap == [heap EXCEPT !.id = "staging_heap"]

StagingDescs ==
    {d3d12_desc_create_cbv(
         StagingHeap, d3d12_descriptor_heap_init_descriptors(StagingHeap)[s],
         desc).desc :
     s \in Slots, desc \in {c \in CbvDescs : CbvDescAccepted(c)}}

\* ID3D12Device::CopyDescriptorsSimple of one descriptor of the staging heap
\* to slot d.
CopyDescriptorsFromHeap(d, src) ==
    /\ DescOnly
    /\ LET w == d3d12_desc_copy(heap, descs[d], src)
       IN  /\ descs' = [descs EXCEPT ![d] = w.desc]
           /\ lastWrite' =
                  [op |-> "copy_heap", slot |-> d, type |-> 0,
                   accepted |-> TRUE, location |-> 0,
                   before |-> NoWrite.before, size |-> 0,
                   updates |-> w.updates,
                   src |-> src.heap_offset,
                   wrote |-> w.wrote]
    /\ UNCHANGED heap

\* Descriptors are written to the first slot and copied between the first
\* two and from the staging heap.
NextDescHeap ==
    \/ \E s \in ViewSlots : \E ty \in NullTypes(heap) : NullDescriptorWrite(s, ty)
    \/ \E s \in ViewSlots : \E desc \in CbvDescs :
           CreateConstantBufferView(s, desc)
    \/ \E s \in ViewSlots : \E desc \in BufferViewDescs :
           CreateShaderResourceView(s, BufferResource, desc)
    \/ \E s \in ViewSlots : \E desc \in BufferViewDescs :
           CreateUnorderedAccessView(s, BufferResource, desc)
    \/ \E d \in CopySlots : \E s \in CopySlots : CopyDescriptors(d, s)
    \/ \E d \in CopySlots : \E src \in StagingDescs :
           CopyDescriptorsFromHeap(d, src)

SpecDescHeap == InitDescSpec /\ [][NextDescHeap]_vars

(***************************************************************************)
(* The view cache of one resource.                                         *)
(***************************************************************************)
InitIdle ==
    /\ InitResource({[bufferDeviceAddress |-> TRUE]})
    /\ InitDescIdle
    /\ InitCreateIdle
    /\ InitSamplerIdle
    /\ InitCookieIdle
    /\ InitHeapIdle

InitView == InitViewMap(ViewPools) /\ InitIdle

\* Return from vkd3d_view_map_create_view with result v (NoView is NULL).
Return(t, v) ==
    /\ pc' = [pc EXCEPT ![t] = "idle"]
    /\ served' = IF v = NoView THEN served
                 ELSE [served EXCEPT ![key[t]] = @ \cup {v}]
    /\ key' = [key EXCEPT ![t] = NoKey]
    /\ view' = [view EXCEPT ![t] = NoView]
    /\ e' = [e EXCEPT ![t] = NoView]
    /\ redundant_view' = [redundant_view EXCEPT ![t] = NoView]

\* CreateViewEnter with the lookup started without taking the read lock.
CreateViewEnter_NoLock(t, k) ==
    /\ ViewOnly
    /\ pc[t] = "idle"
    /\ ~mapDestroyed
    /\ key' = [key EXCEPT ![t] = k]
    /\ spinlock' = rw_spinlock_add_reader(spinlock)
    /\ pc' = [pc EXCEPT ![t] = "find"]
    /\ UNCHANGED <<map, used_count, inserting, mapDestroyed, views, view, e,
                   redundant_view, holds, pool, served, nativeUnderLock,
                   tornRead, danglingUse, teardownCount>>

\* Entry of vkd3d_view_map_create_view; rw_spinlock_acquire_read announces
\* the reader.
CreateViewEnter(t, k) ==
    /\ ViewOnly
    /\ pc[t] = "idle"
    /\ ~mapDestroyed
    /\ key' = [key EXCEPT ![t] = k]
    /\ spinlock' = rw_spinlock_add_reader(spinlock)
    /\ pc' = [pc EXCEPT ![t] = "acquire_read"]
    /\ UNCHANGED <<map, used_count, inserting, mapDestroyed, views, view, e,
                   redundant_view, holds, pool, served, nativeUnderLock,
                   tornRead, danglingUse, teardownCount>>

\* rw_spinlock_acquire_read returns once no writer holds the lock.
AcquireRead(t) ==
    /\ ViewOnly
    /\ pc[t] = "acquire_read"
    /\ rw_spinlock_can_read(spinlock)
    /\ holds' = [holds EXCEPT ![t] = "read"]
    /\ pc' = [pc EXCEPT ![t] = "find"]
    /\ UNCHANGED <<spinlock, map, used_count, inserting, mapDestroyed, views,
                   key, view, e, redundant_view, pool, served,
                   nativeUnderLock, tornRead, danglingUse, teardownCount>>

\* What hash_map_find can return to the caller.  While another thread is in
\* the middle of writing an entry the read races with the write: the probe
\* may or may not see the entry being written.
FindOutcomes(t) ==
    IF inserting # NoEntry /\ vkd3d_view_entry_compare(key[t], inserting.key)
    THEN {NoView, inserting.view}
    ELSE {hash_map_find(map, key[t]).view}

\* e = hash_map_find(&view_map->map, key)
Find(t) ==
    /\ ViewOnly
    /\ pc[t] = "find"
    /\ \E found \in FindOutcomes(t) :
          /\ e' = [e EXCEPT ![t] = found]
          /\ pc' = [pc EXCEPT ![t] = IF found # NoView THEN "hit" ELSE "miss"]
    /\ tornRead' = (tornRead \/ inserting # NoEntry)
    /\ UNCHANGED <<spinlock, map, used_count, inserting, mapDestroyed, views,
                   key, view, redundant_view, holds, pool, served,
                   nativeUnderLock, danglingUse, teardownCount>>

\* Hit: view = e->view; release the read lock; return view.
ReleaseReadHit(t) ==
    /\ ViewOnly
    /\ pc[t] = "hit"
    /\ spinlock' = rw_spinlock_release_read(spinlock)
    /\ holds' = [holds EXCEPT ![t] = "none"]
    /\ Return(t, e[t])
    /\ UNCHANGED <<map, used_count, inserting, mapDestroyed, views, pool,
                   nativeUnderLock, tornRead, danglingUse, teardownCount>>

\* ReleaseReadMiss with the read lock kept across the native creation.
ReleaseReadMiss_KeepsLock(t) ==
    /\ ViewOnly
    /\ pc[t] = "miss"
    /\ pc' = [pc EXCEPT ![t] = "create"]
    /\ UNCHANGED <<spinlock, holds, map, used_count, inserting, mapDestroyed,
                   views, key, view, e, redundant_view, pool, served,
                   nativeUnderLock, tornRead, danglingUse, teardownCount>>

\* Miss: release the read lock before creating the native view.
ReleaseReadMiss(t) ==
    /\ ViewOnly
    /\ pc[t] = "miss"
    /\ spinlock' = rw_spinlock_release_read(spinlock)
    /\ holds' = [holds EXCEPT ![t] = "none"]
    /\ pc' = [pc EXCEPT ![t] = "create"]
    /\ UNCHANGED <<map, used_count, inserting, mapDestroyed, views, key, view,
                   e, redundant_view, pool, served, nativeUnderLock, tornRead,
                   danglingUse, teardownCount>>

\* The switch on key->view_type: vkd3d_create_buffer_view,
\* vkd3d_create_texture_view, d3d12_create_sampler or
\* vkd3d_create_acceleration_structure_view.  The native call can fail, and
\* does once MaxViews native views exist; then NULL is returned.
CreateNativeView(t) ==
    /\ ViewOnly
    /\ pc[t] = "create"
    /\ nativeUnderLock' = (nativeUnderLock \/ holds[t] # "none")
    /\ \E success \in BOOLEAN :
          IF success /\ Len(views) < MaxViews
          THEN /\ views' = Append(views, vkd3d_view_create(key[t]))
               /\ view' = [view EXCEPT ![t] = Len(views) + 1]
               /\ pc' = [pc EXCEPT ![t] = "acquire_write"]
               /\ UNCHANGED <<key, e, redundant_view, served>>
          ELSE /\ views' = views
               /\ Return(t, NoView)
    /\ UNCHANGED <<spinlock, map, used_count, inserting, mapDestroyed, holds,
                   pool, tornRead, danglingUse, teardownCount>>

\* rw_spinlock_acquire_write
AcquireWrite(t) ==
    /\ ViewOnly
    /\ pc[t] = "acquire_write"
    /\ rw_spinlock_can_write(spinlock)
    /\ spinlock' = rw_spinlock_acquire_write(spinlock)
    /\ holds' = [holds EXCEPT ![t] = "write"]
    /\ pc' = [pc EXCEPT ![t] = "insert"]
    /\ UNCHANGED <<map, used_count, inserting, mapDestroyed, views, key, view,
                   e, redundant_view, pool, served, nativeUnderLock, tornRead,
                   danglingUse, teardownCount>>

\* hash_map_insert, first half: probe.  An entry that matches the key is
\* returned as it is; otherwise a free slot is claimed and is being written.
Insert(t) ==
    /\ ViewOnly
    /\ pc[t] = "insert"
    /\ LET found == hash_map_find(map, key[t])
       IN  IF found # NoEntry
           THEN /\ e' = [e EXCEPT ![t] = found.view]
                /\ pc' = [pc EXCEPT ![t] = "inserted"]
                /\ UNCHANGED <<inserting, used_count>>
           ELSE /\ inserting' = [key |-> key[t], view |-> view[t]]
                /\ used_count' = used_count + 1
                /\ pc' = [pc EXCEPT ![t] = "insert_write"]
                /\ e' = e
    /\ UNCHANGED <<spinlock, map, mapDestroyed, views, key, view,
                   redundant_view, holds, pool, served, nativeUnderLock,
                   tornRead, danglingUse, teardownCount>>

\* hash_map_insert, second half: the entry is complete and occupied.
InsertWrite(t) ==
    /\ ViewOnly
    /\ pc[t] = "insert_write"
    /\ map' = map \cup {inserting}
    /\ e' = [e EXCEPT ![t] = inserting.view]
    /\ inserting' = NoEntry
    /\ pc' = [pc EXCEPT ![t] = "inserted"]
    /\ UNCHANGED <<spinlock, used_count, mapDestroyed, views, key, view,
                   redundant_view, holds, pool, served, nativeUnderLock,
                   tornRead, danglingUse, teardownCount>>

\* ReleaseWriteRedundant without "view = e->view": the caller keeps the view
\* it created.
ReleaseWriteRedundant_KeepsOwnView(t) ==
    /\ ViewOnly
    /\ pc[t] = "inserted"
    /\ e[t] # view[t]
    /\ redundant_view' = [redundant_view EXCEPT ![t] = view[t]]
    /\ spinlock' = rw_spinlock_release_write(spinlock)
    /\ holds' = [holds EXCEPT ![t] = "none"]
    /\ pc' = [pc EXCEPT ![t] = "decref"]
    /\ UNCHANGED <<map, used_count, inserting, mapDestroyed, views, key, e,
                   view, pool, served, nativeUnderLock, tornRead, danglingUse,
                   teardownCount>>

\* if (e->view != view): another thread inserted first.  redundant_view =
\* view; view = e->view; release the write lock.
ReleaseWriteRedundant(t) ==
    /\ ViewOnly
    /\ pc[t] = "inserted"
    /\ e[t] # view[t]
    /\ redundant_view' = [redundant_view EXCEPT ![t] = view[t]]
    /\ view' = [view EXCEPT ![t] = e[t]]
    /\ spinlock' = rw_spinlock_release_write(spinlock)
    /\ holds' = [holds EXCEPT ![t] = "none"]
    /\ pc' = [pc EXCEPT ![t] = "decref"]
    /\ UNCHANGED <<map, used_count, inserting, mapDestroyed, views, key, e,
                   pool, served, nativeUnderLock, tornRead, danglingUse,
                   teardownCount>>

\* vkd3d_view_decref(redundant_view, device); return view.
DecrefRedundant(t) ==
    /\ ViewOnly
    /\ pc[t] = "decref"
    /\ views' = vkd3d_view_decref(views, redundant_view[t])
    /\ nativeUnderLock' =
          (nativeUnderLock \/ (holds[t] # "none" /\ ~views'[redundant_view[t]].alive))
    /\ Return(t, view[t])
    /\ UNCHANGED <<spinlock, map, used_count, inserting, mapDestroyed, holds,
                   pool, tornRead, danglingUse, teardownCount>>

\* else branch: this thread's view was installed.  view = e->view; release
\* the write lock; return view.
ReleaseWriteInstalled(t) ==
    /\ ViewOnly
    /\ pc[t] = "inserted"
    /\ e[t] = view[t]
    /\ spinlock' = rw_spinlock_release_write(spinlock)
    /\ holds' = [holds EXCEPT ![t] = "none"]
    /\ Return(t, e[t])
    /\ UNCHANGED <<map, used_count, inserting, mapDestroyed, views, pool,
                   nativeUnderLock, tornRead, danglingUse, teardownCount>>

(***************************************************************************)
(* Holders of view references.  A caller that was handed a cached view may *)
(* keep it beyond the call by taking its own reference.                    *)
(***************************************************************************)
\* vkd3d_view_incref
ViewIncref(v) ==
    /\ ViewOnly
    /\ v \in 1..Len(views)
    /\ views[v].alive
    /\ v \in UNION {served[k] : k \in pool}
    /\ views[v].holders < MaxHolderRefs
    /\ views' = [views EXCEPT ![v].refcount = @ + 1, ![v].holders = @ + 1]
    /\ UNCHANGED <<spinlock, map, used_count, inserting, mapDestroyed, pc,
                   key, view, e, redundant_view, holds, pool, served,
                   nativeUnderLock, tornRead, danglingUse, teardownCount>>

\* vkd3d_view_decref by a holder.  On a view that was already freed the
\* decrement reads freed memory: whether it then sees zero and destroys the
\* view a second time is not determined.
ViewDecref(v) ==
    /\ ViewOnly
    /\ v \in 1..Len(views)
    /\ views[v].holders > 0
    /\ IF views[v].alive
       THEN /\ views' = [vkd3d_view_decref(views, v) EXCEPT ![v].holders = @ - 1]
            /\ danglingUse' = danglingUse
       ELSE /\ \E again \in BOOLEAN :
                 views' = [views EXCEPT ![v].holders = @ - 1,
                                        ![v].destroys = IF again THEN @ + 1 ELSE @]
            /\ danglingUse' = TRUE
    /\ UNCHANGED <<spinlock, map, used_count, inserting, mapDestroyed, pc,
                   key, view, e, redundant_view, holds, pool, served,
                   nativeUnderLock, tornRead, teardownCount>>

(***************************************************************************)
(* vkd3d_view_map_destroy, run by d3d12_resource_destroy: every occupied   *)
(* entry's view goes through vkd3d_view_destroy, whatever its reference    *)
(* count, then hash_map_clear.  No call is in progress at that point.      *)
(***************************************************************************)
RECURSIVE DestroyEntries(_, _)
DestroyEntries(vs, entries) ==
    IF entries = {} THEN vs
    ELSE LET en == CHOOSE x \in entries : TRUE
         IN  DestroyEntries(
                 vkd3d_view_destroy(vs, en.view, vs[en.view].refcount - 1),
                 entries \ {en})

ViewMapDestroy ==
    /\ ~mapDestroyed
    /\ \A t \in Threads : pc[t] = "idle"
    /\ views' = DestroyEntries(views, map)
    /\ teardownCount' = Cardinality(map)
    /\ map' = {}
    /\ used_count' = 0
    /\ mapDestroyed' = TRUE
    /\ UNCHANGED <<spinlock, inserting, pc, key, view, e, redundant_view,
                   holds, pool, served, nativeUnderLock, tornRead, danglingUse>>

vkd3d_view_map_destroy == ViewOnly /\ ViewMapDestroy

CreateViewStep ==
    \/ \E t \in Threads : \E k \in pool : CreateViewEnter(t, k)
    \/ \E t \in Threads : AcquireRead(t)
    \/ \E t \in Threads : Find(t)
    \/ \E t \in Threads : ReleaseReadHit(t)
    \/ \E t \in Threads : ReleaseReadMiss(t)
    \/ \E t \in Threads : CreateNativeView(t)
    \/ \E t \in Threads : AcquireWrite(t)
    \/ \E t \in Threads : Insert(t)
    \/ \E t \in Threads : InsertWrite(t)
    \/ \E t \in Threads : ReleaseWriteRedundant(t)
    \/ \E t \in Threads : DecrefRedundant(t)
    \/ \E t \in Threads : ReleaseWriteInstalled(t)

NextView ==
    \/ CreateViewStep
    \/ vkd3d_view_map_destroy

SpecView == InitView /\ [][NextView]_vars

(***************************************************************************)
(* SpecViewRefs: SpecView together with holders that take and release      *)
(* references on the cached views.                                         *)
(***************************************************************************)
NextViewRefs ==
    \/ CreateViewStep
    \/ \E v \in 1..MaxViews : ViewIncref(v)
    \/ \E v \in 1..MaxViews : ViewDecref(v)
    \/ vkd3d_view_map_destroy

SpecViewRefs == InitView /\ [][NextViewRefs]_vars

(***************************************************************************)
(* SpecKeys: one thread issuing view requests one after the other, over    *)
(* every pool of keys; the branch of vkd3d_view_map_create_view for a lost *)
(* insert race cannot be taken.                                            *)
(***************************************************************************)
SeqThread == CHOOSE t \in Threads : \A u \in Threads : t <= u

InitKeys == InitViewMap(KeyPools) /\ InitIdle

NextKeys ==
    \/ \E k \in pool : CreateViewEnter(SeqThread, k)
    \/ AcquireRead(SeqThread)
    \/ Find(SeqThread)
    \/ ReleaseReadHit(SeqThread)
    \/ ReleaseReadMiss(SeqThread)
    \/ CreateNativeView(SeqThread)
    \/ AcquireWrite(SeqThread)
    \/ Insert(SeqThread)
    \/ InsertWrite(SeqThread)
    \/ ReleaseWriteInstalled(SeqThread)
    \/ vkd3d_view_map_destroy

SpecKeys == InitKeys /\ [][NextKeys]_vars

\* The same requests on a sampler's view map, as d3d12_desc_create_sampler
\* makes them on device->sampler_map.
InitSamplerKeys == InitViewMap(SamplerKeyPools) /\ InitIdle

SpecSamplerKeys == InitSamplerKeys /\ [][NextKeys]_vars

(***************************************************************************)
(* The resource object: d3d12_resource_create_committed, the public and    *)
(* the internal reference count, and d3d12_resource_destroy.               *)
(***************************************************************************)
\* What an operation on the resource's counters leaves alone.
RefOnly == UNCHANGED <<viewVars, descVars, createVars, samplerVars, staticVars, cookieVars, heapLifeVars>>

\* The steps of d3d12_resource_create_committed that can fail.
FailPoints ==
    {"none", "validate_create_info", "malloc", "view_map_init",
     "private_store_init", "create_vk_resource", "allocate_memory",
     "bind_image_memory", "make_vrs_view", "allocate_heap_memory"}

\* The fields of D3D12_RESOURCE_DESC and of the device's answers that decide
\* the path taken through d3d12_resource_create_committed.
ResourceDescs ==
    [dimension : {"BUFFER", "TEXTURE2D"},
     can_be_vrs : BOOLEAN,
     prefersDedicatedAllocation : BOOLEAN]

d3d12_resource_is_texture(r) == r.dimension # "BUFFER"

\* vkd3d_free_memory: the allocation's device memory, and for a heap
\* allocation the buffer bound to it and that buffer's VA-map entry.
vkd3d_free_memory(l) ==
    l \ {"vk_memory", "dedicated_memory", "heap_buffer", "heap_va_entry"}

\* d3d12_resource_destroy that leaves the implicit VRS view and the sparse
\* tables alone.
d3d12_resource_destroy_KeepsVrsView(r, l, bda) ==
    IF "EXTERNAL" \in r.flags THEN l
    ELSE LET image == IF d3d12_resource_is_texture(r) /\ r.vk_image
                      THEN l \ {"vk_image"} ELSE l
             unallocated == IF "ALLOCATION" \in r.flags /\ r.vk_memory
                            THEN vkd3d_free_memory(image) ELSE image
         IN  unallocated \ {"private_store", "object"}

\* d3d12_resource_destroy: the native objects and allocations that remain.
d3d12_resource_destroy(r, l, bda) ==
    IF "EXTERNAL" \in r.flags THEN l
    ELSE LET sparse ==
                 IF "RESERVED" \in r.flags
                 THEN (l \ {"sparse_metadata_memory", "tiles", "tilings"})
                      \ (IF r.va
                         THEN {"va_entry"} \cup (IF ~bda THEN {"fake_va"} ELSE {})
                         ELSE {})
                 ELSE l
             image ==
                 IF d3d12_resource_is_texture(r)
                 THEN (IF r.vk_image THEN sparse \ {"vk_image"} ELSE sparse)
                 ELSE IF "RESERVED" \in r.flags /\ r.vk_buffer
                      THEN sparse \ {"vk_buffer"}
                      ELSE sparse
             unallocated ==
                 IF "ALLOCATION" \in r.flags /\ r.vk_memory
                 THEN vkd3d_free_memory(image) ELSE image
             unviewed ==
                 IF r.vrs_view THEN unallocated \ {"vrs_view"} ELSE unallocated
         IN  unviewed \ {"private_store", "object"}

\* The device references d3d12_resource_destroy gives back.
d3d12_resource_destroy_device_release(r) ==
    IF "EXTERNAL" \in r.flags THEN 0 ELSE 1

\* d3d12_resource_create: nothing is left behind when it fails.
d3d12_resource_create_fails(fail) ==
    fail \in {"validate_create_info", "malloc", "view_map_init",
              "private_store_init"}

d3d12_resource_create(desc, flags) ==
    [state |-> "alive", refcount |-> 1, internal_refcount |-> 1,
     flags |-> flags, dimension |-> desc.dimension, vk_image |-> FALSE,
     vk_buffer |-> FALSE, va |-> FALSE, vk_memory |-> FALSE,
     vrs_view |-> FALSE]

\* The body of d3d12_resource_create_committed after d3d12_resource_create:
\* the object and what is alive when the function reaches its end or its
\* fail label.  ok tells which of the two.
CommittedTexture(r, desc, fail) ==
    LET l0 == {"object", "private_store"}
        r1 == [r EXCEPT !.vk_image = TRUE]
        l1 == l0 \cup {"vk_image"}
        r2 == [r1 EXCEPT !.vk_memory = TRUE]
        l2 == l1 \cup {IF desc.prefersDedicatedAllocation
                       THEN "dedicated_memory" ELSE "vk_memory"}
        r3 == [r2 EXCEPT !.vrs_view = TRUE]
        l3 == l2 \cup {"vrs_view"}
    IN  IF fail = "create_vk_resource" THEN [ok |-> FALSE, r |-> r, l |-> l0]
        ELSE IF fail = "allocate_memory" THEN [ok |-> FALSE, r |-> r1, l |-> l1]
        ELSE IF fail = "bind_image_memory" THEN [ok |-> FALSE, r |-> r2, l |-> l2]
        ELSE IF desc.can_be_vrs
             THEN IF fail = "make_vrs_view"
                  THEN [ok |-> FALSE, r |-> r2, l |-> l2]
                  ELSE [ok |-> TRUE, r |-> r3, l |-> l3]
             ELSE [ok |-> TRUE, r |-> r2, l |-> l2]

CommittedBuffer(r, desc, fail) ==
    LET l0 == {"object", "private_store"}
    IN  IF fail = "allocate_heap_memory" THEN [ok |-> FALSE, r |-> r, l |-> l0]
        ELSE [ok |-> TRUE,
              r |-> [r EXCEPT !.vk_memory = TRUE, !.vk_buffer = TRUE, !.va = TRUE],
              l |-> l0 \cup {"vk_memory", "heap_buffer", "heap_va_entry"}]

\* d3d12_resource_create_committed, called by thread t, which receives the
\* one public reference of the new resource.  On the fail label the object
\* goes through d3d12_resource_destroy and no resource is returned.
d3d12_resource_create_committed(t, desc, fail) ==
    /\ RefOnly
    /\ resource.state = "none"
    /\ rpc[t] = "idle"
    /\ IF d3d12_resource_create_fails(fail)
       THEN UNCHANGED <<resource, live, deviceRefs, pubHeld, immediate>>
       ELSE LET r0 == d3d12_resource_create(desc, {"COMMITTED", "ALLOCATION"})
                b == IF d3d12_resource_is_texture(r0)
                     THEN CommittedTexture(r0, desc, fail)
                     ELSE CommittedBuffer(r0, desc, fail)
            IN  IF b.ok
                THEN /\ resource' = b.r
                     /\ live' = live \cup b.l
                     /\ deviceRefs' = deviceRefs + 1
                     /\ pubHeld' = [pubHeld EXCEPT ![t] = 1]
                     /\ immediate' = TRUE
                ELSE /\ live' = live \cup
                            d3d12_resource_destroy(b.r, b.l,
                                                   device.bufferDeviceAddress)
                     /\ deviceRefs' = deviceRefs + 1
                                      - d3d12_resource_destroy_device_release(b.r)
                     /\ UNCHANGED <<resource, pubHeld, immediate>>
    /\ UNCHANGED <<device, rpc, intHeld, destroyCount, refsAtDestroy>>

HoldsReference(t) == pubHeld[t] > 0 \/ intHeld[t] > 0

\* AddRefFirst without the internal reference.
AddRefFirst_NoIncref(t) ==
    /\ RefOnly
    /\ rpc[t] = "addref_first"
    /\ deviceRefs' = deviceRefs + 1
    /\ pubHeld' = [pubHeld EXCEPT ![t] = @ + 1]
    /\ rpc' = [rpc EXCEPT ![t] = "idle"]
    /\ UNCHANGED <<resource, device, live, intHeld, destroyCount,
                   refsAtDestroy, immediate>>

\* d3d12_resource_AddRef: InterlockedIncrement(&resource->refcount).
AddRef(t) ==
    /\ RefOnly
    /\ rpc[t] = "idle"
    /\ HoldsReference(t)
    /\ resource.refcount < MaxRefs
    /\ resource.refcount = 0 => deviceRefs <= MaxRefs
    /\ resource' = [resource EXCEPT !.refcount = @ + 1]
    /\ IF resource'.refcount = 1
       THEN /\ rpc' = [rpc EXCEPT ![t] = "addref_first"]
            /\ UNCHANGED pubHeld
       ELSE /\ pubHeld' = [pubHeld EXCEPT ![t] = @ + 1]
            /\ UNCHANGED rpc
    /\ immediate' = FALSE
    /\ UNCHANGED <<device, live, deviceRefs, intHeld, destroyCount,
                   refsAtDestroy>>

\* d3d12_resource_AddRef, refcount == 1: d3d12_device_add_ref and
\* d3d12_resource_incref.
AddRefFirst(t) ==
    /\ RefOnly
    /\ rpc[t] = "addref_first"
    /\ deviceRefs' = deviceRefs + 1
    /\ resource' = [resource EXCEPT !.internal_refcount = @ + 1]
    /\ pubHeld' = [pubHeld EXCEPT ![t] = @ + 1]
    /\ rpc' = [rpc EXCEPT ![t] = "idle"]
    /\ UNCHANGED <<device, live, intHeld, destroyCount, refsAtDestroy,
                   immediate>>

\* d3d12_resource_Release: InterlockedDecrement(&resource->refcount).
Release(t) ==
    /\ RefOnly
    /\ rpc[t] = "idle"
    /\ pubHeld[t] > 0
    /\ resource' = [resource EXCEPT !.refcount = @ - 1]
    /\ pubHeld' = [pubHeld EXCEPT ![t] = @ - 1]
    /\ rpc' = [rpc EXCEPT ![t] = IF resource'.refcount = 0
                                 THEN "release_decref" ELSE "idle"]
    /\ UNCHANGED <<device, live, deviceRefs, intHeld, destroyCount,
                   refsAtDestroy, immediate>>

\* d3d12_resource_Release, !refcount: d3d12_resource_decref, up to its test
\* of the decremented value.
ReleaseDecref(t) ==
    /\ RefOnly
    /\ rpc[t] = "release_decref"
    /\ resource' = [resource EXCEPT !.internal_refcount = @ - 1]
    /\ rpc' = [rpc EXCEPT ![t] = IF resource'.internal_refcount = 0
                                 THEN "destroy" ELSE "idle"]
    /\ UNCHANGED <<device, live, deviceRefs, pubHeld, intHeld, destroyCount,
                   refsAtDestroy, immediate>>

\* d3d12_resource_incref
Incref(t) ==
    /\ RefOnly
    /\ rpc[t] = "idle"
    /\ HoldsReference(t)
    /\ resource.internal_refcount <= MaxRefs
    /\ resource' = [resource EXCEPT !.internal_refcount = @ + 1]
    /\ intHeld' = [intHeld EXCEPT ![t] = @ + 1]
    /\ immediate' = FALSE
    /\ UNCHANGED <<device, live, deviceRefs, rpc, pubHeld, destroyCount,
                   refsAtDestroy>>

\* d3d12_resource_decref by the owner of an internal reference, up to its
\* test of the decremented value.
Decref(t) ==
    /\ RefOnly
    /\ rpc[t] = "idle"
    /\ intHeld[t] > 0
    /\ resource' = [resource EXCEPT !.internal_refcount = @ - 1]
    /\ intHeld' = [intHeld EXCEPT ![t] = @ - 1]
    /\ rpc' = [rpc EXCEPT ![t] = IF resource'.internal_refcount = 0
                                 THEN "destroy" ELSE "idle"]
    /\ UNCHANGED <<device, live, deviceRefs, pubHeld, destroyCount,
                   refsAtDestroy, immediate>>

RECURSIVE SumOver(_, _)
SumOver(f, ts) ==
    IF ts = {} THEN 0
    ELSE LET u == CHOOSE x \in ts : TRUE
         IN  f[u] + SumOver(f, ts \ {u})

\* References that exist when thread t is about to destroy the resource:
\* the ones owned, and the ones of calls still in progress.
OutstandingRefs(t) ==
    SumOver(pubHeld, Threads) + SumOver(intHeld, Threads)
    + Cardinality({u \in Threads \ {t} : rpc[u] # "idle"})

\* d3d12_resource_decref, !refcount: d3d12_resource_destroy.
Destroy(t) ==
    /\ rpc[t] = "destroy"
    /\ ViewMapDestroy
    /\ live' = d3d12_resource_destroy(resource, live, device.bufferDeviceAddress)
    /\ deviceRefs' = deviceRefs - d3d12_resource_destroy_device_release(resource)
    /\ resource' = [resource EXCEPT !.state = "destroyed"]
    /\ destroyCount' = destroyCount + 1
    /\ refsAtDestroy' = OutstandingRefs(t)
    /\ rpc' = [rpc EXCEPT ![t] = "idle"]
    /\ UNCHANGED <<device, pubHeld, intHeld, immediate>>
    /\ UNCHANGED <<descVars, createVars, samplerVars, staticVars, cookieVars, heapLifeVars>>

NextRef ==
    \/ \E t \in Threads : \E desc \in ResourceDescs : \E fail \in FailPoints :
           d3d12_resource_create_committed(t, desc, fail)
    \/ \E t \in Threads : AddRef(t)
    \/ \E t \in Threads : AddRefFirst(t)
    \/ \E t \in Threads : Release(t)
    \/ \E t \in Threads : ReleaseDecref(t)
    \/ \E t \in Threads : Incref(t)
    \/ \E t \in Threads : Decref(t)
    \/ \E t \in Threads : Destroy(t)

InitRef ==
    /\ InitViewMap({{}})
    /\ InitResource(Devices)
    /\ InitDescIdle
    /\ InitCreateIdle
    /\ InitSamplerIdle
    /\ InitCookieIdle
    /\ InitHeapIdle

SpecRef == InitRef /\ [][NextRef]_vars

\* vkd3d_create_image_resource: the object wraps create_info->vk_image, which
\* the caller keeps owning, and is flagged VKD3D_RESOURCE_EXTERNAL.  A failed
\* allocation or initialisation frees the object and returns no resource.
vkd3d_create_image_resource(t, fail) ==
    /\ RefOnly
    /\ resource.state = "none"
    /\ rpc[t] = "idle"
    /\ IF fail \in {"malloc", "view_map_init", "private_store_init"}
       THEN UNCHANGED <<resource, live, deviceRefs, pubHeld, immediate>>
       ELSE /\ resource' =
                   [d3d12_resource_create([dimension |-> "TEXTURE2D"],
                                          {"EXTERNAL"})
                       EXCEPT !.vk_image = TRUE]
            /\ live' = live \cup {"object", "private_store"}
            /\ deviceRefs' = deviceRefs + 1
            /\ pubHeld' = [pubHeld EXCEPT ![t] = 1]
            /\ immediate' = TRUE
    /\ UNCHANGED <<device, rpc, intHeld, destroyCount, refsAtDestroy>>

NextExternal ==
    \/ \E t \in Threads : \E fail \in FailPoints :
           vkd3d_create_image_resource(t, fail)
    \/ \E t \in Threads : AddRef(t)
    \/ \E t \in Threads : AddRefFirst(t)
    \/ \E t \in Threads : Release(t)
    \/ \E t \in Threads : ReleaseDecref(t)
    \/ \E t \in Threads : Incref(t)
    \/ \E t \in Threads : Decref(t)
    \/ \E t \in Threads : Destroy(t)

SpecExternal == InitRef /\ [][NextExternal]_vars

(***************************************************************************)
(* Placed and reserved resources: d3d12_resource_validate_desc,            *)
(* vkd3d_get_image_allocation_info, d3d12_resource_create_placed,          *)
(* d3d12_resource_create_reserved and the sparse tile table.  Every        *)
(* operator returns the HRESULT together with the native calls issued, in  *)
(* order, and the objects left alive.                                      *)
(***************************************************************************)
\* What a creation call leaves alone.
CreateOnly == UNCHANGED <<viewVars, refVars, descVars, samplerVars, staticVars, cookieVars, heapLifeVars>>

D3D12_SMALL_RESOURCE_PLACEMENT_ALIGNMENT == 4096
D3D12_DEFAULT_RESOURCE_PLACEMENT_ALIGNMENT == 65536
D3D12_DEFAULT_MSAA_RESOURCE_PLACEMENT_ALIGNMENT == 4194304
VKD3D_TILE_SIZE == 65536

\* align() of vkd3d_common.h, for a power-of-two alignment.
align(addr, alignment) == ((addr + alignment - 1) \div alignment) * alignment

max(a, b) == IF a > b THEN a ELSE b

\* struct vkd3d_format of the DXGI formats the requests use; a format the
\* table does not know gives NULL.
NoFormat ==
    [null |-> TRUE, compressed |-> FALSE, block_width |-> 1,
     block_height |-> 1, byte_count |-> 1, block_byte_count |-> 1,
     vk_aspect_mask |-> {}]

vkd3d_format_from_d3d12_resource_desc(desc) ==
    CASE desc.Format = "R8G8B8A8_UNORM" ->
             [NoFormat EXCEPT !.null = FALSE, !.byte_count = 4,
                              !.vk_aspect_mask = {"COLOR"}]
      [] desc.Format = "R8_UINT" ->
             [NoFormat EXCEPT !.null = FALSE, !.vk_aspect_mask = {"COLOR"}]
      [] desc.Format = "BC1_UNORM" ->
             [NoFormat EXCEPT !.null = FALSE, !.compressed = TRUE,
                              !.block_width = 4, !.block_height = 4,
                              !.block_byte_count = 8,
                              !.vk_aspect_mask = {"COLOR"}]
      [] desc.Format = "D24_UNORM_S8_UINT" ->
             [NoFormat EXCEPT !.null = FALSE, !.byte_count = 4,
                              !.vk_aspect_mask = {"DEPTH", "STENCIL"}]
      [] OTHER -> NoFormat

\* d3d12_validate_resource_flags without the depth-stencil exclusions.
d3d12_validate_resource_flags_AcceptsAll(flags) == "S_OK"

\* d3d12_validate_resource_flags
d3d12_validate_resource_flags(flags) ==
    IF "ALLOW_SIMULTANEOUS_ACCESS" \in flags /\ "ALLOW_DEPTH_STENCIL" \in flags
    THEN "E_INVALIDARG"
    ELSE IF "ALLOW_UNORDERED_ACCESS" \in flags /\ "ALLOW_DEPTH_STENCIL" \in flags
    THEN "E_INVALIDARG"
    ELSE "S_OK"

\* d3d12_resource_validate_texture_format
d3d12_resource_validate_texture_format(desc, format) ==
    IF ~format.compressed THEN TRUE
    ELSE IF desc.Dimension = "TEXTURE1D" /\ format.block_height > 1 THEN FALSE
    ELSE IF align(desc.Width, format.block_width) # desc.Width
            \/ align(desc.Height, format.block_height) # desc.Height
    THEN FALSE
    ELSE TRUE

\* d3d12_resource_validate_texture_alignment
d3d12_resource_validate_texture_alignment(desc, format) ==
    LET estimated_size ==
            (desc.Width * desc.Height * format.byte_count
             * format.block_byte_count)
            \div (format.block_width * format.block_height)
    IN  IF desc.Alignment = 0 THEN TRUE
        ELSE IF desc.Alignment # D3D12_DEFAULT_RESOURCE_PLACEMENT_ALIGNMENT
                /\ desc.Alignment # D3D12_SMALL_RESOURCE_PLACEMENT_ALIGNMENT
                /\ (desc.SampleDesc.Count = 1
                    \/ desc.Alignment # D3D12_DEFAULT_MSAA_RESOURCE_PLACEMENT_ALIGNMENT)
        THEN FALSE
        ELSE IF desc.Alignment < D3D12_DEFAULT_RESOURCE_PLACEMENT_ALIGNMENT
                /\ estimated_size > D3D12_DEFAULT_RESOURCE_PLACEMENT_ALIGNMENT
        THEN FALSE
        ELSE TRUE

\* d3d12_resource_validate_desc
d3d12_resource_validate_desc(desc) ==
    LET format == vkd3d_format_from_d3d12_resource_desc(desc)
        texture ==
            IF desc.SampleDesc.Count = 0 THEN "E_INVALIDARG"
            ELSE IF format.null THEN "E_INVALIDARG"
            ELSE IF ~d3d12_resource_validate_texture_format(desc, format)
                    \/ ~d3d12_resource_validate_texture_alignment(desc, format)
            THEN "E_INVALIDARG"
            ELSE d3d12_validate_resource_flags(desc.Flags)
    IN  CASE desc.Dimension = "BUFFER" ->
                 IF desc.MipLevels # 1 THEN "E_INVALIDARG"
                 ELSE IF desc.Format # "UNKNOWN" \/ desc.Layout # "ROW_MAJOR"
                         \/ desc.Height # 1 \/ desc.DepthOrArraySize # 1
                         \/ desc.SampleDesc.Count # 1
                         \/ desc.SampleDesc.Quality # 0
                         \/ (desc.Alignment # 0
                             /\ desc.Alignment # D3D12_DEFAULT_RESOURCE_PLACEMENT_ALIGNMENT)
                 THEN "E_INVALIDARG"
                 ELSE IF "ALLOW_SIMULTANEOUS_ACCESS" \in desc.Flags
                 THEN "E_INVALIDARG"
                 ELSE d3d12_validate_resource_flags(desc.Flags)
          [] desc.Dimension = "TEXTURE1D" ->
                 IF desc.Height # 1 THEN "E_INVALIDARG" ELSE texture
          [] desc.Dimension \in {"TEXTURE2D", "TEXTURE3D"} -> texture
          [] OTHER -> "E_INVALIDARG"

\* is_cpu_accessible_heap of vkd3d_private.h
is_cpu_accessible_heap(properties) ==
    IF properties.Type = "CUSTOM"
    THEN properties.CPUPageProperty \in {"WRITE_COMBINE", "WRITE_BACK"}
    ELSE properties.Type # "DEFAULT"

\* d3d12_resource_validate_heap_properties
d3d12_resource_validate_heap_properties(desc, heap_properties, initial_state) ==
    IF heap_properties.Type \in {"UPLOAD", "READBACK"}
       /\ (desc.Dimension # "BUFFER"
           \/ desc.Flags \cap {"ALLOW_RENDER_TARGET", "ALLOW_UNORDERED_ACCESS"} # {})
    THEN "E_INVALIDARG"
    ELSE IF heap_properties.Type = "UPLOAD" /\ initial_state # "GENERIC_READ"
    THEN "E_INVALIDARG"
    ELSE IF heap_properties.Type = "READBACK" /\ initial_state # "COPY_DEST"
    THEN "E_INVALIDARG"
    ELSE IF desc.Layout = "ROW_MAJOR" /\ desc.Dimension = "TEXTURE2D"
            /\ ("ALLOW_CROSS_ADAPTER" \notin desc.Flags
                \/ desc.MipLevels > 1 \/ desc.DepthOrArraySize > 1
                \/ (heap_properties.Type = "CUSTOM"
                    /\ heap_properties.CPUPageProperty # "NOT_AVAILABLE"))
    THEN "E_INVALIDARG"
    ELSE IF desc.Layout = "ROW_MAJOR"
            /\ desc.Dimension \in {"TEXTURE1D", "TEXTURE3D"}
    THEN "E_INVALIDARG"
    ELSE "S_OK"

\* The heap properties argument of a reserved resource: a NULL pointer.
NoHeapProperties == [Type |-> "NULL", CPUPageProperty |-> "UNKNOWN"]

\* d3d12_resource_validate_create_info.  args holds initial_state and
\* whether optimized_clear_value is given; is_valid_resource_state rejects
\* the state "INVALID".
d3d12_resource_validate_create_info(desc, heap_properties, args) ==
    IF d3d12_resource_validate_desc(desc) # "S_OK"
    THEN d3d12_resource_validate_desc(desc)
    ELSE IF heap_properties # NoHeapProperties
            /\ d3d12_resource_validate_heap_properties(
                   desc, heap_properties, args.initial_state) # "S_OK"
    THEN "E_INVALIDARG"
    ELSE IF args.optimized_clear_value /\ desc.Dimension = "BUFFER"
    THEN "E_INVALIDARG"
    ELSE IF args.initial_state = "INVALID" THEN "E_INVALIDARG"
    ELSE "S_OK"

\* d3d12_resource_desc_get_width / _height / _depth / _layer_count and
\* d3d12_resource_desc_get_sub_resource_count_per_plane of vkd3d_private.h.
ShiftRight(x, n) == x \div (2 ^ n)

d3d12_resource_desc_get_width(desc, miplevel) ==
    max(1, ShiftRight(desc.Width, miplevel))

d3d12_resource_desc_get_height(desc, miplevel) ==
    max(1, ShiftRight(desc.Height, miplevel))

d3d12_resource_desc_get_depth(desc, miplevel) ==
    IF desc.Dimension = "TEXTURE3D"
    THEN max(1, ShiftRight(desc.DepthOrArraySize, miplevel))
    ELSE 1

d3d12_resource_desc_get_layer_count(desc) ==
    IF desc.Dimension = "TEXTURE3D" THEN 1 ELSE desc.DepthOrArraySize

d3d12_resource_desc_get_sub_resource_count_per_plane(desc) ==
    d3d12_resource_desc_get_layer_count(desc) * desc.MipLevels

\* vkd3d_sparse_image_may_have_mip_tail
vkd3d_sparse_image_may_have_mip_tail(desc, sparse_info) ==
    LET block_extent == sparse_info.imageGranularity
        mip_level == desc.MipLevels - 1
        w == d3d12_resource_desc_get_width(desc, mip_level)
        h == d3d12_resource_desc_get_height(desc, mip_level)
        d == d3d12_resource_desc_get_depth(desc, mip_level)
    IN  IF sparse_info.aligned_mip_size
        THEN w % block_extent.width # 0 \/ h % block_extent.height # 0
             \/ d % block_extent.depth # 0
        ELSE w < block_extent.width \/ h < block_extent.height
             \/ d < block_extent.depth

\* vkd3d_resource_can_be_vrs
vkd3d_resource_can_be_vrs(native, heap_properties, desc) ==
    /\ native.attachmentFragmentShadingRate
    /\ desc.Format = "R8_UINT"
    /\ desc.Dimension = "TEXTURE2D"
    /\ desc.MipLevels = 1
    /\ desc.SampleDesc.Count = 1
    /\ desc.SampleDesc.Quality = 0
    /\ desc.Layout = "UNKNOWN"
    /\ heap_properties # NoHeapProperties
    /\ ~is_cpu_accessible_heap(heap_properties)
    /\ desc.Flags \cap {"ALLOW_RENDER_TARGET", "ALLOW_DEPTH_STENCIL",
                        "ALLOW_CROSS_ADAPTER", "ALLOW_SIMULTANEOUS_ACCESS"} = {}

\* vkd3d_create_image: the HRESULT, the native calls made and the tiling of
\* the image.  has_resource is FALSE for the throwaway image of
\* vkd3d_get_image_allocation_info; a failing vkCreateImage is
\* VK_ERROR_OUT_OF_DEVICE_MEMORY.
vkd3d_create_image(heap_properties, desc, has_resource, native, fail) ==
    LET sparse_resource == heap_properties = NoHeapProperties
        format == vkd3d_format_from_d3d12_resource_desc(desc)
        cpu == ~sparse_resource /\ is_cpu_accessible_heap(heap_properties)
        tiling ==
            IF sparse_resource \/ desc.Layout = "UNKNOWN"
            THEN IF cpu /\ native.linear_supported THEN "LINEAR" ELSE "OPTIMAL"
            ELSE "LINEAR"
        queries ==
            (IF cpu THEN <<"vkGetPhysicalDeviceImageFormatProperties">>
             ELSE <<>>)
            \o (IF sparse_resource
                THEN <<"vkGetPhysicalDeviceSparseImageFormatProperties">>
                ELSE <<>>)
        Done(hr, calls) == [hr |-> hr, calls |-> calls, tiling |-> tiling]
    IN  IF ~has_resource /\ format.null THEN Done("E_INVALIDARG", <<>>)
        ELSE IF sparse_resource /\ desc.Dimension = "TEXTURE1D"
        THEN Done("E_INVALIDARG", <<>>)
        ELSE IF sparse_resource /\ desc.Dimension = "TEXTURE3D"
                /\ native.TiledResourcesTier < 3
        THEN Done("E_INVALIDARG", <<>>)
        ELSE IF sparse_resource /\ Cardinality(format.vk_aspect_mask) > 1
        THEN Done("E_INVALIDARG", <<>>)
        ELSE IF sparse_resource /\ desc.Layout # "64KB_UNDEFINED_SWIZZLE"
        THEN Done("E_INVALIDARG", <<>>)
        ELSE IF ~sparse_resource /\ desc.Layout \notin {"UNKNOWN", "ROW_MAJOR"}
        THEN Done("E_NOTIMPL", <<>>)
        ELSE IF sparse_resource /\ native.sparse.count = 0
        THEN Done("E_INVALIDARG", queries)
        ELSE IF sparse_resource
                /\ vkd3d_sparse_image_may_have_mip_tail(desc, native.sparse)
                /\ desc.DepthOrArraySize > 1 /\ desc.MipLevels > 1
        THEN Done("E_INVALIDARG", queries)
        ELSE IF fail = "vkCreateImage"
        THEN Done("E_OUTOFMEMORY", queries \o <<"vkCreateImage">>)
        ELSE Done("S_OK", queries \o <<"vkCreateImage">>)

\* vkd3d_get_image_allocation_info that clamps the alignment and reports the
\* native size as it is.
vkd3d_get_image_allocation_info_NoPadding(desc, native, fail) ==
    LET image == vkd3d_create_image(
                     [Type |-> "DEFAULT", CPUPageProperty |-> "UNKNOWN"],
                     desc, FALSE, native, fail)
        requirements == native.requirements[image.tiling]
        target_alignment ==
            IF desc.Alignment # 0 THEN desc.Alignment
            ELSE D3D12_DEFAULT_RESOURCE_PLACEMENT_ALIGNMENT
    IN  IF image.hr # "S_OK"
        THEN [hr |-> image.hr, calls |-> image.calls,
              SizeInBytes |-> 0, Alignment |-> 0]
        ELSE [hr |-> "S_OK",
              calls |-> image.calls
                        \o <<"vkGetImageMemoryRequirements", "vkDestroyImage">>,
              SizeInBytes |-> requirements.size,
              Alignment |->
                  IF requirements.alignment > target_alignment
                  THEN target_alignment ELSE requirements.alignment]

\* vkd3d_get_image_allocation_info, always asked about a DEFAULT heap.
vkd3d_get_image_allocation_info(desc, native, fail) ==
    LET image == vkd3d_create_image(
                     [Type |-> "DEFAULT", CPUPageProperty |-> "UNKNOWN"],
                     desc, FALSE, native, fail)
        requirements == native.requirements[image.tiling]
        target_alignment ==
            IF desc.Alignment # 0 THEN desc.Alignment
            ELSE D3D12_DEFAULT_RESOURCE_PLACEMENT_ALIGNMENT
    IN  IF image.hr # "S_OK"
        THEN [hr |-> image.hr, calls |-> image.calls,
              SizeInBytes |-> 0, Alignment |-> 0]
        ELSE [hr |-> "S_OK",
              calls |-> image.calls
                        \o <<"vkGetImageMemoryRequirements", "vkDestroyImage">>,
              SizeInBytes |->
                  IF requirements.alignment > target_alignment
                  THEN requirements.size
                       + (requirements.alignment - target_alignment)
                  ELSE requirements.size,
              Alignment |->
                  IF requirements.alignment > target_alignment
                  THEN target_alignment ELSE requirements.alignment]

\* The result of a creation call: the HRESULT, the native calls in order,
\* what is left alive, the object handed out and where it was placed.
NoSparse ==
    [tiling_count |-> 0, tile_count |-> 0, tiles |-> <<>>,
     vk_metadata_memory |-> 0]

Outcome(hr, calls, l, r) ==
    [hr |-> hr, calls |-> calls, live |-> l, object |-> r,
     heap_offset |-> 0, sparse |-> NoSparse]

\* The native calls of d3d12_resource_destroy.
d3d12_resource_destroy_calls(r) ==
    (IF d3d12_resource_is_texture(r) THEN <<"vkDestroyImage">>
     ELSE IF "RESERVED" \in r.flags THEN <<"vkDestroyBuffer">>
     ELSE <<>>)
    \o (IF "ALLOCATION" \in r.flags /\ r.vk_memory
        THEN <<"vkd3d_free_memory">> ELSE <<>>)
    \o (IF r.vrs_view THEN <<"vkDestroyImageView">> ELSE <<>>)

\* The fail label of the creation functions.
FailLabel(hr, calls, l, r, native) ==
    Outcome(hr, calls \o d3d12_resource_destroy_calls(r),
            d3d12_resource_destroy(r, l, native.bufferDeviceAddress),
            NoResource)

\* d3d12_resource_create on the request: "S_OK" or the failure returned
\* before anything exists.
d3d12_resource_create_hr(desc, heap_properties, args, fail) ==
    IF d3d12_resource_validate_create_info(desc, heap_properties, args) # "S_OK"
    THEN "E_INVALIDARG"
    ELSE IF fail = "malloc" THEN "E_OUTOFMEMORY"
    ELSE "S_OK"

\* d3d12_resource_create_committed on a request.
create_committed(desc, heap_properties, args, native, fail) ==
    LET hr == d3d12_resource_create_hr(desc, heap_properties, args, fail)
        l0 == {"object", "private_store"}
        r0 == d3d12_resource_create([dimension |-> desc.Dimension],
                                    {"COMMITTED", "ALLOCATION"})
        image == vkd3d_create_image(heap_properties, desc, TRUE, native, fail)
        r1 == [r0 EXCEPT !.vk_image = TRUE]
        l1 == l0 \cup {"vk_image"}
        c1 == image.calls \o <<"vkGetImageMemoryRequirements2">>
        r2 == [r1 EXCEPT !.vk_memory = TRUE]
        l2 == l1 \cup {"vk_memory"}
        c2 == c1 \o <<"vkd3d_allocate_memory">>
        c3 == c2 \o <<"vkBindImageMemory">>
        c4 == c3 \o <<"vkCreateImageView">>
    IN  IF hr # "S_OK" THEN Outcome(hr, <<>>, {}, NoResource)
        ELSE IF desc.Dimension # "BUFFER"
        THEN IF image.hr # "S_OK"
             THEN FailLabel(image.hr, image.calls, l0, r0, native)
             ELSE IF fail = "allocate_memory"
             THEN FailLabel("E_OUTOFMEMORY", c2, l1, r1, native)
             ELSE IF fail = "vkBindImageMemory"
             THEN FailLabel("E_OUTOFMEMORY", c3, l2, r2, native)
             ELSE IF vkd3d_resource_can_be_vrs(native, heap_properties, desc)
             THEN IF fail = "vkCreateImageView"
                  THEN FailLabel("E_OUTOFMEMORY", c4, l2, r2, native)
                  ELSE Outcome("S_OK", c4, l2 \cup {"vrs_view"},
                               [r2 EXCEPT !.vrs_view = TRUE])
             ELSE Outcome("S_OK", c3, l2, r2)
        ELSE IF fail = "allocate_memory"
        THEN FailLabel("E_OUTOFMEMORY", <<"vkd3d_allocate_heap_memory">>,
                       l0, r0, native)
        ELSE Outcome("S_OK",
                     <<"vkd3d_allocate_heap_memory">>,
                     l0 \cup {"vk_memory", "heap_buffer", "heap_va_entry"},
                     [r0 EXCEPT !.vk_memory = TRUE, !.vk_buffer = TRUE,
                                !.va = TRUE])

\* d3d12_resource_validate_heap that looks at DENY_BUFFERS only.
d3d12_resource_validate_heap_BuffersOnly(resource_desc, h) ==
    IF resource_desc.Dimension = "BUFFER" /\ "DENY_BUFFERS" \in h.Flags
    THEN "E_INVALIDARG"
    ELSE IF "SHARED_CROSS_ADAPTER" \in h.Flags
            /\ "ALLOW_CROSS_ADAPTER" \notin resource_desc.Flags
    THEN "E_INVALIDARG"
    ELSE "S_OK"

\* d3d12_resource_validate_heap
d3d12_resource_validate_heap(resource_desc, h) ==
    LET deny_flag ==
            IF resource_desc.Dimension = "BUFFER" THEN "DENY_BUFFERS"
            ELSE IF resource_desc.Flags
                    \cap {"ALLOW_RENDER_TARGET", "ALLOW_DEPTH_STENCIL"} # {}
            THEN "DENY_RT_DS_TEXTURES"
            ELSE "DENY_NON_RT_DS_TEXTURES"
    IN  IF deny_flag \in h.Flags THEN "E_INVALIDARG"
        ELSE IF "SHARED_CROSS_ADAPTER" \in h.Flags
                /\ "ALLOW_CROSS_ADAPTER" \notin resource_desc.Flags
        THEN "E_INVALIDARG"
        ELSE "S_OK"

\* The > of two uint64_t values.  A uint64_t is held by its two's-complement
\* reading, a value of 2^63 or more as that value minus 2^64, so that a sum
\* or an align() that wraps around 2^64 is the sum or the align() of the
\* integers held.
uint64_greater(a, b) == IF (a < 0) = (b < 0) THEN a > b ELSE a < 0

\* d3d12_resource_create_placed.  h is the struct d3d12_heap: its desc's
\* Flags and Properties, allocation.resource.size and whether device memory
\* backs it.
d3d12_resource_create_placed(desc, h, heap_offset, args, native, fail) ==
    LET hr == d3d12_resource_create_hr(desc, h.Properties, args, fail)
        l0 == {"object", "private_store"}
        r0 == d3d12_resource_create([dimension |-> desc.Dimension], {"PLACED"})
        image == vkd3d_create_image(h.Properties, desc, TRUE, native, fail)
        memory_requirements == native.requirements[image.tiling]
        r1 == [r0 EXCEPT !.vk_image = TRUE]
        l1 == l0 \cup {"vk_image"}
        c1 == image.calls \o <<"vkGetImageMemoryRequirements">>
        aligned == align(heap_offset, memory_requirements.alignment)
        c2 == c1 \o <<"vkBindImageMemory">>
        c3 == c2 \o <<"vkCreateImageView">>
    IN  IF d3d12_resource_validate_heap(desc, h) # "S_OK"
        THEN Outcome("E_INVALIDARG", <<>>, {}, NoResource)
        ELSE IF ~h.vk_memory
        THEN create_committed(desc, h.Properties, args, native, fail)
        ELSE IF hr # "S_OK" THEN Outcome(hr, <<>>, {}, NoResource)
        ELSE IF desc.Dimension # "BUFFER"
        THEN IF image.hr # "S_OK"
             THEN FailLabel(image.hr, image.calls, l0, r0, native)
             ELSE IF uint64_greater(aligned + memory_requirements.size, h.size)
             THEN FailLabel("E_INVALIDARG", c1, l1, r1, native)
             ELSE IF fail = "vkBindImageMemory"
             THEN FailLabel("E_OUTOFMEMORY", c2, l1, r1, native)
             ELSE IF vkd3d_resource_can_be_vrs(native, h.Properties, desc)
             THEN IF fail = "vkCreateImageView"
                  THEN FailLabel("E_OUTOFMEMORY", c3, l1, r1, native)
                  ELSE [Outcome("S_OK", c3, l1 \cup {"vrs_view"},
                                [r1 EXCEPT !.vrs_view = TRUE])
                        EXCEPT !.heap_offset = aligned]
             ELSE [Outcome("S_OK", c2, l1, r1) EXCEPT !.heap_offset = aligned]
        ELSE IF uint64_greater(heap_offset + desc.Width, h.size)
        THEN FailLabel("E_INVALIDARG", <<>>, l0, r0, native)
        ELSE [Outcome("S_OK", <<>>, l0,
                      [r0 EXCEPT !.vk_buffer = TRUE, !.va = TRUE])
              EXCEPT !.heap_offset = heap_offset]

\* D3D12_SUBRESOURCE_TILING of a subresource in the packed mip tail; -1 is
\* the start index ~0u.
PackedTiling ==
    [WidthInTiles |-> 0, HeightInTiles |-> 0, DepthInTiles |-> 0,
     StartTileIndexInOverallResource |-> -1]

\* The loop of d3d12_resource_get_tiling over the subresources of a texture,
\* from subresource i on: the tilings and the running tile count.
RECURSIVE TextureTilings(_, _, _, _, _, _)
TextureTilings(desc, block_extent, standard_mips, i, tile_count, tilings) ==
    IF i >= d3d12_resource_desc_get_sub_resource_count_per_plane(desc)
    THEN [tilings |-> tilings, tile_count |-> tile_count]
    ELSE LET mip_level == i % desc.MipLevels
             tile_count_w ==
                 align(d3d12_resource_desc_get_width(desc, mip_level),
                       block_extent.width) \div block_extent.width
             tile_count_h ==
                 align(d3d12_resource_desc_get_height(desc, mip_level),
                       block_extent.height) \div block_extent.height
             tile_count_d ==
                 align(d3d12_resource_desc_get_depth(desc, mip_level),
                       block_extent.depth) \div block_extent.depth
         IN  IF mip_level < standard_mips
             THEN TextureTilings(desc, block_extent, standard_mips, i + 1,
                      tile_count + tile_count_w * tile_count_h * tile_count_d,
                      Append(tilings,
                             [WidthInTiles |-> tile_count_w,
                              HeightInTiles |-> tile_count_h,
                              DepthInTiles |-> tile_count_d,
                              StartTileIndexInOverallResource |-> tile_count]))
             ELSE TextureTilings(desc, block_extent, standard_mips, i + 1,
                      tile_count, Append(tilings, PackedTiling))

\* d3d12_resource_get_tiling that rounds the tile count of a buffer down.
d3d12_resource_get_tiling_RoundsDown(desc, native) ==
    [calls |-> <<>>,
     total_tile_count |-> desc.Width \div VKD3D_TILE_SIZE,
     tilings |-> <<>>, NumStandardMips |-> 0, NumPackedMips |-> 0,
     NumTilesForPackedMips |-> 0, StartTileIndexInOverallResource |-> 0]

\* d3d12_resource_get_tiling.  A driver that reports no sparse memory
\* requirements leaves the outputs as d3d12_resource_init_sparse_info set
\* them: no tiles, no packed mips.
d3d12_resource_get_tiling(desc, native) ==
    LET buffer_tiles == align(desc.Width, VKD3D_TILE_SIZE) \div VKD3D_TILE_SIZE
        vk_info == native.sparse
        standard_mips ==
            IF vk_info.imageMipTailSize # 0
            THEN min(desc.MipLevels, vk_info.imageMipTailFirstLod)
            ELSE desc.MipLevels
        tail_tiles ==
            IF standard_mips < desc.MipLevels
            THEN align(vk_info.imageMipTailSize, VKD3D_TILE_SIZE)
                 \div VKD3D_TILE_SIZE
            ELSE 0
        packed_tiles ==
            IF ~vk_info.single_miptail
            THEN tail_tiles * d3d12_resource_desc_get_layer_count(desc)
            ELSE tail_tiles
        standard == TextureTilings(desc, vk_info.imageGranularity,
                                   standard_mips, 0, 0, <<>>)
    IN  IF desc.Dimension = "BUFFER"
        THEN [calls |-> <<>>,
              total_tile_count |-> buffer_tiles,
              tilings |-> <<[WidthInTiles |-> buffer_tiles,
                             HeightInTiles |-> 1, DepthInTiles |-> 1,
                             StartTileIndexInOverallResource |-> 0]>>,
              NumStandardMips |-> 0, NumPackedMips |-> 0,
              NumTilesForPackedMips |-> 0,
              StartTileIndexInOverallResource |-> 0]
        ELSE IF vk_info.requirement_count = 0
        THEN [calls |-> <<"vkGetImageSparseMemoryRequirements">>,
              total_tile_count |-> 0, tilings |-> <<>>,
              NumStandardMips |-> 0, NumPackedMips |-> 0,
              NumTilesForPackedMips |-> 0,
              StartTileIndexInOverallResource |-> 0]
        ELSE [calls |-> <<"vkGetImageSparseMemoryRequirements",
                          "vkGetImageSparseMemoryRequirements">>,
              total_tile_count |-> standard.tile_count + packed_tiles,
              tilings |-> standard.tilings,
              NumStandardMips |-> standard_mips,
              NumPackedMips |-> desc.MipLevels - standard_mips,
              NumTilesForPackedMips |-> packed_tiles,
              StartTileIndexInOverallResource |->
                  IF packed_tiles # 0 THEN standard.tile_count ELSE 0]

\* The step to the next subresource that takes the subresource after the
\* current one whether or not it is part of the packed mip tail.
NextStandardSubresource_NoSkip(subresource, MipLevels, NumStandardMips) ==
    subresource + 1

\* "Find next subresource that is not part of the packed mip tail"
RECURSIVE NextStandardSubresource(_, _, _)
NextStandardSubresource(subresource, MipLevels, NumStandardMips) ==
    IF (subresource + 1) % MipLevels >= NumStandardMips
    THEN NextStandardSubresource(subresource + 1, MipLevels, NumStandardMips)
    ELSE subresource + 1

\* The tile loop of d3d12_resource_init_sparse_info that leaves vk_memory
\* and vk_offset of the entries as vkd3d_malloc returned them.
RECURSIVE SparseTiles_Uninitialized(_, _, _, _, _, _, _)
SparseTiles_Uninitialized(desc, native, t, i, tile_offset, subresource, tiles) ==
    IF i >= t.total_tile_count THEN tiles
    ELSE SparseTiles_Uninitialized(desc, native, t, i + 1, tile_offset,
             subresource,
             Append(tiles,
                    [kind |-> "buffer", offset |-> VKD3D_TILE_SIZE * i,
                     length |-> min(VKD3D_TILE_SIZE,
                                    desc.Width - VKD3D_TILE_SIZE * i),
                     vk_memory |-> "garbage", vk_offset |-> 0]))

\* The tile loop of d3d12_resource_init_sparse_info, from tile i on.  The
\* length of a mip tail tile is the min() of two VkDeviceSize values, whose
\* difference wraps when the offset lies past imageMipTailSize.
RECURSIVE SparseTiles(_, _, _, _, _, _, _)
SparseTiles(desc, native, t, i, tile_offset, subresource, tiles) ==
    IF i >= t.total_tile_count THEN tiles
    ELSE IF desc.Dimension = "BUFFER"
    THEN SparseTiles(desc, native, t, i + 1, tile_offset, subresource,
             Append(tiles,
                    [kind |-> "buffer", offset |-> VKD3D_TILE_SIZE * i,
                     length |-> min(VKD3D_TILE_SIZE,
                                    desc.Width - VKD3D_TILE_SIZE * i),
                     vk_memory |-> "VK_NULL_HANDLE", vk_offset |-> 0]))
    ELSE IF t.NumPackedMips # 0 /\ i >= t.StartTileIndexInOverallResource
    THEN LET offset ==
                 VKD3D_TILE_SIZE * (i - t.StartTileIndexInOverallResource)
         IN  SparseTiles(desc, native, t, i + 1, tile_offset, subresource,
                 Append(tiles,
                        [kind |-> "buffer",
                         offset |-> native.sparse.imageMipTailOffset + offset,
                         length |->
                             LET rest == native.sparse.imageMipTailSize - offset
                             IN  IF uint64_greater(rest, VKD3D_TILE_SIZE)
                                 THEN VKD3D_TILE_SIZE ELSE rest,
                         vk_memory |-> "VK_NULL_HANDLE", vk_offset |-> 0]))
    ELSE LET block_extent == native.sparse.imageGranularity
             tiling == t.tilings[subresource + 1]
             mipLevel == subresource % desc.MipLevels
             x == tile_offset[1] * block_extent.width
             y == tile_offset[2] * block_extent.height
             z == tile_offset[3] * block_extent.depth
             region ==
                 [kind |-> "image", subresource_index |-> subresource,
                  mipLevel |-> mipLevel,
                  arrayLayer |-> subresource \div desc.MipLevels,
                  offset |-> <<x, y, z>>,
                  extent |->
                      <<min(block_extent.width,
                            d3d12_resource_desc_get_width(desc, mipLevel) - x),
                        min(block_extent.height,
                            d3d12_resource_desc_get_height(desc, mipLevel) - y),
                        min(block_extent.depth,
                            d3d12_resource_desc_get_depth(desc, mipLevel) - z)>>,
                  vk_memory |-> "VK_NULL_HANDLE", vk_offset |-> 0]
             wrap_x == tile_offset[1] + 1 = tiling.WidthInTiles
             wrap_y == wrap_x /\ tile_offset[2] + 1 = tiling.HeightInTiles
             wrap_z == wrap_y /\ tile_offset[3] + 1 = tiling.DepthInTiles
             next_offset ==
                 <<IF wrap_x THEN 0 ELSE tile_offset[1] + 1,
                   IF wrap_y THEN 0
                   ELSE IF wrap_x THEN tile_offset[2] + 1 ELSE tile_offset[2],
                   IF wrap_z THEN 0
                   ELSE IF wrap_y THEN tile_offset[3] + 1 ELSE tile_offset[3]>>
         IN  SparseTiles(desc, native, t, i + 1, next_offset,
                 IF wrap_z
                 THEN NextStandardSubresource(subresource, desc.MipLevels,
                                              t.NumStandardMips)
                 ELSE subresource,
                 Append(tiles, region))

\* The first loop of d3d12_resource_bind_sparse_metadata over the sparse
\* requirements from index i on: metadata_size is multiplied by, and
\* bind_count raised by, what each requirement with the metadata aspect asks.
RECURSIVE MetadataSizeAndBindCount(_, _, _, _, _)
MetadataSizeAndBindCount(desc, reqs, i, metadata_size, bind_count) ==
    IF i > Len(reqs)
    THEN [metadata_size |-> metadata_size, bind_count |-> bind_count]
    ELSE LET req == reqs[i]
             layer_count ==
                 IF req.single_miptail THEN 1
                 ELSE d3d12_resource_desc_get_layer_count(desc)
         IN  IF "METADATA" \in req.aspectMask
             THEN MetadataSizeAndBindCount(
                      desc, reqs, i + 1,
                      metadata_size * (layer_count * req.imageMipTailSize),
                      bind_count + layer_count)
             ELSE MetadataSizeAndBindCount(desc, reqs, i + 1, metadata_size,
                                           bind_count)

\* d3d12_resource_bind_sparse_metadata: the HRESULT, the native calls, the
\* metadata memory left allocated and its size.  metadata_size starts at 0.
\* A queue that cannot be acquired leaves hr at S_OK.
d3d12_resource_bind_sparse_metadata(desc, native, fail) ==
    LET reqs == native.sparse_requirements
        needed == MetadataSizeAndBindCount(desc, reqs, 1, 0, 0)
        c0 == <<"vkGetImageSparseMemoryRequirements">>
        c1 == c0 \o <<"vkGetImageSparseMemoryRequirements">>
        c2 == c1 \o <<"vkGetImageMemoryRequirements",
                      "vkd3d_allocate_device_memory">>
        c3 == c2 \o <<"vkQueueBindSparse">>
        c4 == c3 \o <<"vkQueueWaitIdle">>
        Done(hr, calls, l) ==
            [hr |-> hr, calls |-> calls, live |-> l,
             vk_metadata_memory |->
                 IF l = {} THEN 0 ELSE needed.metadata_size]
        memory == {"sparse_metadata_memory"}
    IN  IF desc.Dimension = "BUFFER" THEN Done("S_OK", <<>>, {})
        ELSE IF fail = "sparse_requirements_malloc"
        THEN Done("E_OUTOFMEMORY", c0, {})
        ELSE IF needed.metadata_size = 0 THEN Done("S_OK", c1, {})
        ELSE IF fail = "vkd3d_allocate_device_memory"
        THEN Done("E_OUTOFMEMORY", c2, {})
        ELSE IF fail = "memory_binds_malloc"
        THEN Done("E_OUTOFMEMORY", c2, memory)
        ELSE IF fail = "vkd3d_queue_acquire" THEN Done("S_OK", c2, memory)
        ELSE IF fail = "vkQueueBindSparse"
        THEN Done("E_OUTOFMEMORY", c3, memory)
        ELSE IF fail = "vkQueueWaitIdle" THEN Done("E_FAIL", c4, memory)
        ELSE Done("S_OK", c4, memory)

\* d3d12_resource_init_sparse_info of a reserved resource.  On a failure
\* the arrays allocated so far stay with the object.
d3d12_resource_init_sparse_info(desc, native, fail) ==
    LET t == d3d12_resource_get_tiling(desc, native)
        tiles == SparseTiles(desc, native, t, 0, <<0, 0, 0>>, 0, <<>>)
        sparse ==
            [tiling_count |->
                 d3d12_resource_desc_get_sub_resource_count_per_plane(desc),
             tile_count |-> t.total_tile_count,
             tiles |-> tiles,
             vk_metadata_memory |-> 0]
        metadata == d3d12_resource_bind_sparse_metadata(desc, native, fail)
    IN  IF fail = "tilings_malloc"
        THEN [hr |-> "E_OUTOFMEMORY", calls |-> <<>>, live |-> {},
              sparse |-> NoSparse]
        ELSE IF fail = "tiles_malloc"
        THEN [hr |-> "E_OUTOFMEMORY", calls |-> t.calls,
              live |-> {"tilings"},
              sparse |-> [sparse EXCEPT !.tiles = <<>>]]
        ELSE [hr |-> metadata.hr, calls |-> t.calls \o metadata.calls,
              live |-> {"tilings", "tiles"} \cup metadata.live,
              sparse |-> [sparse EXCEPT !.vk_metadata_memory =
                                            metadata.vk_metadata_memory]]

\* d3d12_resource_create_reserved
d3d12_resource_create_reserved(desc, args, native, fail) ==
    LET hr == d3d12_resource_create_hr(desc, NoHeapProperties, args, fail)
        l0 == {"object", "private_store"}
        r0 == d3d12_resource_create([dimension |-> desc.Dimension],
                                    {"RESERVED"})
        is_buffer == desc.Dimension = "BUFFER"
        image == vkd3d_create_image(NoHeapProperties, desc, TRUE, native, fail)
        vk == IF is_buffer
              THEN [hr |-> IF fail = "vkCreateBuffer"
                           THEN "E_OUTOFMEMORY" ELSE "S_OK",
                    calls |-> <<"vkCreateBuffer">>]
              ELSE [hr |-> image.hr, calls |-> image.calls]
        r1 == IF is_buffer THEN [r0 EXCEPT !.vk_buffer = TRUE]
              ELSE [r0 EXCEPT !.vk_image = TRUE]
        l1 == l0 \cup {IF is_buffer THEN "vk_buffer" ELSE "vk_image"}
        info == d3d12_resource_init_sparse_info(desc, native, fail)
        c2 == vk.calls \o info.calls
        l2 == l1 \cup info.live
        va_call == IF native.bufferDeviceAddress
                   THEN <<"vkGetBufferDeviceAddress">> ELSE <<>>
        va_live == {"va_entry"}
                   \cup (IF native.bufferDeviceAddress THEN {} ELSE {"fake_va"})
    IN  IF hr # "S_OK" THEN Outcome(hr, <<>>, {}, NoResource)
        ELSE IF vk.hr # "S_OK"
        THEN FailLabel(vk.hr, vk.calls, l0, r0, native)
        ELSE IF info.hr # "S_OK"
        THEN FailLabel(info.hr, c2, l2, r1, native)
        ELSE IF is_buffer /\ fail = "va"
        THEN [Outcome("E_FAIL", c2 \o va_call, l2, NoResource)
              EXCEPT !.sparse = info.sparse]
        ELSE IF is_buffer
        THEN [Outcome("S_OK", c2 \o va_call, l2 \cup va_live,
                      [r1 EXCEPT !.va = TRUE])
              EXCEPT !.sparse = info.sparse]
        ELSE [Outcome("S_OK", c2, l2, r1) EXCEPT !.sparse = info.sparse]

\* The D3D12_RESOURCE_DESC values requested: a plain buffer, a 2D texture
\* and a tiled 2D texture with two mip levels, each with one field changed
\* to each of the values below, and plain buffers of the widths around the
\* tile boundaries.
BufferDesc(Width) ==
    [Dimension |-> "BUFFER", Alignment |-> 0, Width |-> Width, Height |-> 1,
     DepthOrArraySize |-> 1, MipLevels |-> 1, Format |-> "UNKNOWN",
     SampleDesc |-> [Count |-> 1, Quality |-> 0], Layout |-> "ROW_MAJOR",
     Flags |-> {}]

TextureDesc ==
    [Dimension |-> "TEXTURE2D", Alignment |-> 0, Width |-> 4, Height |-> 4,
     DepthOrArraySize |-> 1, MipLevels |-> 1, Format |-> "R8G8B8A8_UNORM",
     SampleDesc |-> [Count |-> 1, Quality |-> 0], Layout |-> "UNKNOWN",
     Flags |-> {}]

TiledTextureDesc ==
    [TextureDesc EXCEPT !.MipLevels = 2, !.Layout = "64KB_UNDEFINED_SWIZZLE"]

BufferWidths ==
    {VKD3D_TILE_SIZE - 1}
    \cup UNION {{(k - 1) * VKD3D_TILE_SIZE + 1, k * VKD3D_TILE_SIZE} :
                k \in 1..MaxTiles}

ResourceFlagSets ==
    {{}, {"ALLOW_RENDER_TARGET"}, {"ALLOW_DEPTH_STENCIL"},
     {"ALLOW_UNORDERED_ACCESS"}, {"ALLOW_SIMULTANEOUS_ACCESS"},
     {"ALLOW_CROSS_ADAPTER"},
     {"ALLOW_SIMULTANEOUS_ACCESS", "ALLOW_DEPTH_STENCIL"},
     {"ALLOW_UNORDERED_ACCESS", "ALLOW_DEPTH_STENCIL"}}

Vary(S) ==
    S
    \cup {[d EXCEPT !.Dimension = v] : d \in S,
          v \in {"BUFFER", "TEXTURE1D", "TEXTURE2D", "TEXTURE3D", "UNKNOWN"}}
    \cup {[d EXCEPT !.Alignment = v] : d \in S,
          v \in {D3D12_SMALL_RESOURCE_PLACEMENT_ALIGNMENT,
                 D3D12_DEFAULT_RESOURCE_PLACEMENT_ALIGNMENT}}
    \cup {[d EXCEPT !.Width = v] : d \in S, v \in {6, 8}}
    \cup {[d EXCEPT !.Height = v] : d \in S, v \in {1, 2, 6}}
    \cup {[d EXCEPT !.DepthOrArraySize = v] : d \in S, v \in {1, 2}}
    \cup {[d EXCEPT !.MipLevels = v] : d \in S, v \in {1, 2}}
    \cup {[d EXCEPT !.Format = v] : d \in S,
          v \in {"UNKNOWN", "R8G8B8A8_UNORM", "R8_UINT", "BC1_UNORM",
                 "D24_UNORM_S8_UINT", "INVALID"}}
    \cup {[d EXCEPT !.SampleDesc = v] : d \in S,
          v \in {[Count |-> 0, Quality |-> 0], [Count |-> 4, Quality |-> 0],
                 [Count |-> 1, Quality |-> 1]}}
    \cup {[d EXCEPT !.Layout = v] : d \in S,
          v \in {"UNKNOWN", "ROW_MAJOR", "64KB_UNDEFINED_SWIZZLE"}}
    \cup {[d EXCEPT !.Flags = v] : d \in S, v \in ResourceFlagSets}

\* A texture never carries DXGI_FORMAT_UNKNOWN here.
RequestDescs ==
    {d \in Vary({BufferDesc(VKD3D_TILE_SIZE), TextureDesc, TiledTextureDesc}) :
         d.Dimension = "BUFFER" \/ d.Format # "UNKNOWN"}
    \cup {BufferDesc(w) : w \in BufferWidths}

\* What the Vulkan driver answers: the memory requirements of an image by
\* tiling, whether linear tiling is supported, the device features, the
\* sparse properties of the format, and the sparse memory requirements of an
\* image by aspect.
Drivers ==
    {[requirements |->
          [tiling \in {"OPTIMAL", "LINEAR"} |->
               [size |-> 65536, alignment |-> 65536]],
      linear_supported |-> TRUE, attachmentFragmentShadingRate |-> TRUE,
      TiledResourcesTier |-> 3, bufferDeviceAddress |-> TRUE,
      sparse |-> [count |-> 1, requirement_count |-> 1,
                  imageGranularity |-> [width |-> 2, height |-> 2, depth |-> 1],
                  aligned_mip_size |-> FALSE, imageMipTailSize |-> 0,
                  imageMipTailFirstLod |-> 0, imageMipTailOffset |-> 0,
                  single_miptail |-> TRUE],
      sparse_requirements |->
          <<[aspectMask |-> {"COLOR"}, single_miptail |-> TRUE,
             imageMipTailSize |-> 0]>>],
     [requirements |->
          [tiling \in {"OPTIMAL", "LINEAR"} |->
               IF tiling = "OPTIMAL"
               THEN [size |-> 196608, alignment |-> 131072]
               ELSE [size |-> 327680, alignment |-> 65536]],
      linear_supported |-> TRUE, attachmentFragmentShadingRate |-> FALSE,
      TiledResourcesTier |-> 2, bufferDeviceAddress |-> FALSE,
      sparse |-> [count |-> 1, requirement_count |-> 1,
                  imageGranularity |-> [width |-> 2, height |-> 2, depth |-> 1],
                  aligned_mip_size |-> FALSE, imageMipTailSize |-> 65537,
                  imageMipTailFirstLod |-> 1, imageMipTailOffset |-> 1048576,
                  single_miptail |-> FALSE],
      sparse_requirements |->
          <<[aspectMask |-> {"COLOR"}, single_miptail |-> FALSE,
             imageMipTailSize |-> 65537],
            [aspectMask |-> {"METADATA"}, single_miptail |-> FALSE,
             imageMipTailSize |-> 65536],
            [aspectMask |-> {"METADATA"}, single_miptail |-> TRUE,
             imageMipTailSize |-> 4096]>>],
     [requirements |->
          [tiling \in {"OPTIMAL", "LINEAR"} |->
               [size |-> 4096, alignment |-> 4096]],
      linear_supported |-> FALSE, attachmentFragmentShadingRate |-> FALSE,
      TiledResourcesTier |-> 3, bufferDeviceAddress |-> TRUE,
      sparse |-> [count |-> 0, requirement_count |-> 0,
                  imageGranularity |-> [width |-> 1, height |-> 1, depth |-> 1],
                  aligned_mip_size |-> TRUE, imageMipTailSize |-> 0,
                  imageMipTailFirstLod |-> 0, imageMipTailOffset |-> 0,
                  single_miptail |-> FALSE],
      sparse_requirements |-> <<>>]}

\* initial_state and whether an optimized clear value is passed.
PlainArgs == [initial_state |-> "COMMON", optimized_clear_value |-> FALSE]

CreateArgs ==
    {PlainArgs,
     [PlainArgs EXCEPT !.initial_state = "GENERIC_READ"],
     [PlainArgs EXCEPT !.initial_state = "INVALID"],
     [PlainArgs EXCEPT !.optimized_clear_value = TRUE]}

Requests ==
    [desc : RequestDescs, args : {PlainArgs}, native : Drivers]
    \cup [desc : {BufferDesc(VKD3D_TILE_SIZE), TextureDesc, TiledTextureDesc},
          args : CreateArgs, native : Drivers]

\* The steps of a creation call that can fail for lack of memory.
CreateFailPoints(op) ==
    {"none", "malloc", "vkCreateImage"}
    \cup (IF op = "reserved"
          THEN {"vkCreateBuffer", "tilings_malloc", "tiles_malloc",
                "sparse_requirements_malloc", "vkd3d_allocate_device_memory",
                "memory_binds_malloc", "vkd3d_queue_acquire",
                "vkQueueBindSparse", "vkQueueWaitIdle", "va"}
          ELSE {"allocate_memory", "vkBindImageMemory", "vkCreateImageView"})

\* D3D12_HEAP_PROPERTIES of the heaps and of committed resources.
DefaultHeapProperties == [Type |-> "DEFAULT", CPUPageProperty |-> "UNKNOWN"]

HeapProperties ==
    {DefaultHeapProperties,
     [Type |-> "UPLOAD", CPUPageProperty |-> "UNKNOWN"],
     [Type |-> "CUSTOM", CPUPageProperty |-> "WRITE_BACK"]}

HeapFlagSets ==
    {{}, {"DENY_BUFFERS"}, {"DENY_RT_DS_TEXTURES"},
     {"DENY_NON_RT_DS_TEXTURES"}, {"SHARED_CROSS_ADAPTER"},
     {"DENY_BUFFERS", "DENY_RT_DS_TEXTURES"}}

\* The sizes of the heaps a resource is placed into: the size reported for
\* the request, if one was, and one tile more or less.  The offsets: the
\* start of the heap, one tile in, one tile below 2^64, and the last byte of
\* the reported size.
HeapSizes ==
    {VKD3D_TILE_SIZE, 2 * VKD3D_TILE_SIZE}
    \cup (IF allocation_info.hr = "S_OK"
          THEN {allocation_info.SizeInBytes} ELSE {})

HeapOffsets ==
    {0, VKD3D_TILE_SIZE, 0 - VKD3D_TILE_SIZE}
    \cup (IF allocation_info.hr = "S_OK"
          THEN {allocation_info.SizeInBytes - 1} ELSE {})

NoHeap ==
    [Flags |-> {}, Properties |-> NoHeapProperties, size |-> 0,
     vk_memory |-> FALSE]

\* The heaps: every set of flags on a DEFAULT heap, every kind of heap
\* without flags, and a heap that no device memory backs.
Heaps ==
    [Flags : HeapFlagSets, Properties : {DefaultHeapProperties},
     size : HeapSizes, vk_memory : {TRUE}]
    \cup [Flags : {{}}, Properties : HeapProperties, size : HeapSizes,
          vk_memory : {TRUE}]
    \cup [Flags : {{}}, Properties : {DefaultHeapProperties},
          size : {VKD3D_TILE_SIZE}, vk_memory : {FALSE}]

\* ID3D12Device::GetResourceAllocationInfo for the texture of the request.
GetResourceAllocationInfo(fail) ==
    /\ CreateOnly
    /\ allocation_info.hr = "none"
    /\ created.op = "none"
    /\ request.desc.Dimension # "BUFFER"
    /\ d3d12_resource_validate_desc(request.desc) = "S_OK"
    /\ allocation_info' =
           vkd3d_get_image_allocation_info(request.desc, request.native, fail)
    /\ UNCHANGED <<request, created>>

\* ID3D12Device::CreatePlacedResource
CreatePlacedResource(h, heap_offset, fail) ==
    /\ CreateOnly
    /\ created.op = "none"
    /\ created' =
           [op |-> "placed", heap |-> h, offset |-> heap_offset,
            heap_properties |-> h.Properties, fail |-> fail,
            result |-> d3d12_resource_create_placed(
                           request.desc, h, heap_offset, request.args,
                           request.native, fail)]
    /\ UNCHANGED <<request, allocation_info>>

\* ID3D12Device::CreateReservedResource
CreateReservedResource(fail) ==
    /\ CreateOnly
    /\ created.op = "none"
    /\ created' =
           [op |-> "reserved", heap |-> NoHeap, offset |-> 0,
            heap_properties |-> NoHeapProperties, fail |-> fail,
            result |-> d3d12_resource_create_reserved(
                           request.desc, request.args, request.native, fail)]
    /\ UNCHANGED <<request, allocation_info>>

\* ID3D12Device::CreateCommittedResource
CreateCommittedResource(heap_properties, fail) ==
    /\ CreateOnly
    /\ created.op = "none"
    /\ created' =
           [op |-> "committed", heap |-> NoHeap, offset |-> 0,
            heap_properties |-> heap_properties, fail |-> fail,
            result |-> create_committed(
                           request.desc, heap_properties, request.args,
                           request.native, fail)]
    /\ UNCHANGED <<request, allocation_info>>

\* Failures are injected into placements at offset 0 of a heap without flags.
PlacedFailPoints(h, heap_offset) ==
    IF h.Flags = {} /\ heap_offset = 0
    THEN CreateFailPoints("placed") ELSE {"none"}

NextCreate ==
    \/ \E fail \in {"none", "vkCreateImage"} : GetResourceAllocationInfo(fail)
    \/ \E h \in Heaps : \E heap_offset \in HeapOffsets :
           \E fail \in PlacedFailPoints(h, heap_offset) :
               CreatePlacedResource(h, heap_offset, fail)
    \/ \E fail \in CreateFailPoints("reserved") : CreateReservedResource(fail)
    \/ \E heap_properties \in HeapProperties :
           \E fail \in CreateFailPoints("committed") :
               CreateCommittedResource(heap_properties, fail)

InitCreate ==
    /\ InitViewMap({{}})
    /\ InitResource({[bufferDeviceAddress |-> TRUE]})
    /\ InitDescIdle
    /\ request \in Requests
    /\ allocation_info = NoAllocationInfo
    /\ created = NoCreate
    /\ InitSamplerIdle
    /\ InitCookieIdle
    /\ InitHeapIdle

SpecCreate == InitCreate /\ [][NextCreate]_vars

(***************************************************************************)
(* struct vkd3d_sampler_state: the descriptor pools that sampler           *)
(* descriptor sets are allocated from, guarded by state->mutex.            *)
(*   sampler_state.mutex                the owning thread, 0 when unlocked *)
(*   sampler_state.vk_descriptor_pools  the pool handles recorded          *)
(*   vk_pools[p]                        the native pool behind handle p    *)
(***************************************************************************)
\* What an operation on the sampler state leaves alone.
SamplerOnly == UNCHANGED <<viewVars, refVars, descVars, createVars, staticVars, cookieVars, heapLifeVars>>

\* What vkAllocateDescriptorSets can answer for pool p: a pool with maxSets
\* sets allocated is out of pool memory; otherwise the driver succeeds,
\* reports fragmentation or runs out of host memory.
AllocateOutcomes(p) ==
    IF vk_pools[p].sets >= PoolMaxSets
    THEN {"VK_ERROR_OUT_OF_POOL_MEMORY"}
    ELSE {"VK_SUCCESS", "VK_ERROR_FRAGMENTED_POOL",
          "VK_ERROR_OUT_OF_HOST_MEMORY"}

\* The pool after vkAllocateDescriptorSets answered vr.
Allocated(p, vr) ==
    IF vr = "VK_SUCCESS" THEN [vk_pools EXCEPT ![p].sets = @ + 1]
    ELSE vk_pools

\* A new pool is made whatever the loop's result was.
NeedsNewPool_Always(vr) == TRUE

\* vr == VK_ERROR_OUT_OF_POOL_MEMORY || vr == VK_ERROR_FRAGMENTED_POOL
NeedsNewPool(vr) ==
    vr \in {"VK_ERROR_OUT_OF_POOL_MEMORY", "VK_ERROR_FRAGMENTED_POOL"}

\* The call of thread t returns: what it returns and which step failed.
ReturnFromAllocate(t, c, returned, cause) ==
    /\ sampler_call' = [sampler_call EXCEPT ![t] = NoCall]
    /\ returned_call' = [c EXCEPT !.pc = "idle", !.thread = t,
                                  !.returned = returned, !.cause = cause]

\* vkd3d_sampler_state_allocate_descriptor_set is called; a
\* pthread_mutex_lock that fails returns hresult_from_errno(rc) at once.
AllocateDescriptorSetEnter(t) ==
    /\ SamplerOnly
    /\ sampler_call[t].pc = "idle"
    /\ \E rc \in {0, 22} :
          IF rc # 0
          THEN ReturnFromAllocate(t, NoCall, "hresult_from_errno", "lock")
          ELSE /\ sampler_call' = [sampler_call EXCEPT
                                      ![t] = [NoCall EXCEPT !.pc = "lock"]]
               /\ UNCHANGED returned_call
    /\ UNCHANGED <<sampler_state, vk_pools, unlockedCall>>

\* pthread_mutex_lock returns 0; vr starts as VK_ERROR_OUT_OF_POOL_MEMORY.
MutexLock(t) ==
    /\ SamplerOnly
    /\ sampler_call[t].pc = "lock"
    /\ sampler_state.mutex = 0
    /\ sampler_state' = [sampler_state EXCEPT !.mutex = t]
    /\ sampler_call' =
           [sampler_call EXCEPT
               ![t] = [@ EXCEPT
                          !.pc = IF sampler_state.vk_descriptor_pools = <<>>
                                 THEN "check" ELSE "pools",
                          !.i = 1,
                          !.vr = "VK_ERROR_OUT_OF_POOL_MEMORY",
                          !.loop_vr = "VK_ERROR_OUT_OF_POOL_MEMORY",
                          !.pool_count =
                              Len(sampler_state.vk_descriptor_pools)]]
    /\ UNCHANGED <<vk_pools, returned_call, unlockedCall>>

\* One round of the loop over state->vk_descriptor_pools: allocate from pool
\* i, break on VK_SUCCESS.
TryPool(t) ==
    /\ SamplerOnly
    /\ sampler_call[t].pc = "pools"
    /\ LET c == sampler_call[t]
           p == sampler_state.vk_descriptor_pools[c.i]
           last == c.i = Len(sampler_state.vk_descriptor_pools)
       IN  \E vr \in AllocateOutcomes(p) :
               /\ vk_pools' = Allocated(p, vr)
               /\ sampler_call' =
                      [sampler_call EXCEPT
                          ![t] = [c EXCEPT
                                     !.vr = vr,
                                     !.loop_vr = vr,
                                     !.tried = @ + 1,
                                     !.vk_pool = IF vr = "VK_SUCCESS"
                                                 THEN p ELSE @,
                                     !.i = IF vr = "VK_SUCCESS"
                                           THEN @ ELSE @ + 1,
                                     !.pc = IF vr = "VK_SUCCESS" \/ last
                                            THEN "check" ELSE "pools"]]
    /\ unlockedCall' = (unlockedCall \/ sampler_state.mutex # t)
    /\ UNCHANGED <<sampler_state, returned_call>>

\* vkd3d_sampler_state_create_descriptor_pool after the loop ended out of
\* pool memory or fragmented; a failure unlocks and is returned.  The driver
\* refuses once MaxPools pools have been created.
CreateDescriptorPool(t) ==
    /\ SamplerOnly
    /\ sampler_call[t].pc = "check"
    /\ NeedsNewPool(sampler_call[t].vr)
    /\ LET c == sampler_call[t]
       IN  \E success \in BOOLEAN :
               IF success /\ Len(vk_pools) < MaxPools
               THEN /\ vk_pools' = Append(vk_pools,
                                          [alive |-> TRUE, sets |-> 0])
                    /\ sampler_call' =
                           [sampler_call EXCEPT
                               ![t] = [c EXCEPT
                                          !.vr = "VK_SUCCESS",
                                          !.descriptorPool = Len(vk_pools) + 1,
                                          !.created = @ + 1,
                                          !.pc = "reserve"]]
                    /\ UNCHANGED <<sampler_state, returned_call>>
               ELSE /\ vk_pools' = vk_pools
                    /\ sampler_state' = [sampler_state EXCEPT !.mutex = 0]
                    /\ ReturnFromAllocate(
                           t, [c EXCEPT !.vr = "VK_ERROR_OUT_OF_HOST_MEMORY"],
                           "hresult_from_vk_result", "create_pool")
    /\ unlockedCall' = (unlockedCall \/ sampler_state.mutex # t)

\* vkd3d_array_reserve for one more pool.  On failure the new pool is
\* destroyed, the mutex unlocked and E_OUTOFMEMORY returned; otherwise the
\* pool is stored at vk_descriptor_pools[vk_descriptor_pool_count++].
ReservePools(t) ==
    /\ SamplerOnly
    /\ sampler_call[t].pc = "reserve"
    /\ LET c == sampler_call[t]
       IN  \E reserved \in BOOLEAN :
               IF reserved
               THEN /\ sampler_state' =
                           [sampler_state EXCEPT
                               !.vk_descriptor_pools =
                                   Append(@, c.descriptorPool)]
                    /\ sampler_call' =
                           [sampler_call EXCEPT ![t] = [c EXCEPT !.pc = "retry"]]
                    /\ UNCHANGED <<vk_pools, returned_call>>
               ELSE /\ vk_pools' =
                           [vk_pools EXCEPT ![c.descriptorPool].alive = FALSE]
                    /\ sampler_state' = [sampler_state EXCEPT !.mutex = 0]
                    /\ ReturnFromAllocate(t, c, "E_OUTOFMEMORY", "reserve")
    /\ unlockedCall' = (unlockedCall \/ sampler_state.mutex # t)

\* The second vkAllocateDescriptorSets, from the new pool; *vk_pool is set
\* whatever it answers.
RetryAllocate(t) ==
    /\ SamplerOnly
    /\ sampler_call[t].pc = "retry"
    /\ LET c == sampler_call[t]
       IN  \E vr \in AllocateOutcomes(c.descriptorPool) :
               /\ vk_pools' = Allocated(c.descriptorPool, vr)
               /\ sampler_call' =
                      [sampler_call EXCEPT
                          ![t] = [c EXCEPT !.vr = vr,
                                           !.retried = @ + 1,
                                           !.vk_pool = c.descriptorPool,
                                           !.pc = "unlock"]]
    /\ unlockedCall' = (unlockedCall \/ sampler_state.mutex # t)
    /\ UNCHANGED <<sampler_state, returned_call>>

\* pthread_mutex_unlock and return hresult_from_vk_result(vr), after the
\* retry or when no new pool was called for.
UnlockAndReturn(t) ==
    /\ SamplerOnly
    /\ \/ sampler_call[t].pc = "unlock"
       \/ sampler_call[t].pc = "check" /\ ~NeedsNewPool(sampler_call[t].vr)
    /\ sampler_state' = [sampler_state EXCEPT !.mutex = 0]
    /\ LET c == sampler_call[t]
       IN  ReturnFromAllocate(t, c, "hresult_from_vk_result",
                              IF c.vr = "VK_SUCCESS" THEN "none"
                              ELSE IF c.retried > 0 THEN "retry"
                              ELSE "existing")
    /\ UNCHANGED <<vk_pools, unlockedCall>>

\* vkd3d_sampler_state_free_descriptor_set gives a set back to pool p, with
\* the mutex taken around vkFreeDescriptorSets.
FreeDescriptorSet(t, p) ==
    /\ SamplerOnly
    /\ sampler_call[t].pc = "idle"
    /\ sampler_state.mutex = 0
    /\ vk_pools[p].alive
    /\ vk_pools[p].sets > 0
    /\ vk_pools' = [vk_pools EXCEPT ![p].sets = @ - 1]
    /\ UNCHANGED <<sampler_state, sampler_call, returned_call, unlockedCall>>

InitSampler ==
    /\ InitViewMap({{}})
    /\ InitResource({[bufferDeviceAddress |-> TRUE]})
    /\ InitDescIdle
    /\ InitCreateIdle
    /\ InitSamplerIdle
    /\ InitCookieIdle
    /\ InitHeapIdle

NextSampler ==
    \/ \E t \in Threads : AllocateDescriptorSetEnter(t)
    \/ \E t \in Threads : MutexLock(t)
    \/ \E t \in Threads : TryPool(t)
    \/ \E t \in Threads : CreateDescriptorPool(t)
    \/ \E t \in Threads : ReservePools(t)
    \/ \E t \in Threads : RetryAllocate(t)
    \/ \E t \in Threads : UnlockAndReturn(t)
    \/ \E t \in Threads : \E p \in 1..Len(vk_pools) : FreeDescriptorSet(t, p)

SpecSampler == InitSampler /\ [][NextSampler]_vars

(***************************************************************************)
(* Static samplers: vkd3d_sampler_state_create_static_sampler keeps one    *)
(* native sampler per D3D12_STATIC_SAMPLER_DESC in state->map, guarded by  *)
(* the same state->mutex.                                                  *)
(***************************************************************************)
\* What a static sampler call leaves alone.
StaticOnly ==
    UNCHANGED <<viewVars, refVars, descVars, createVars, vk_pools,
                sampler_call, returned_call, unlockedCall, cookieVars,
                heapLifeVars>>

vkd3d_sampler_entry_hash(k) ==
    <<k.Filter, k.AddressU, k.AddressV, k.AddressW,
      float_bits_to_uint32(k.MipLODBias), k.MaxAnisotropy, k.ComparisonFunc,
      k.BorderColor, float_bits_to_uint32(k.MinLOD),
      float_bits_to_uint32(k.MaxLOD)>>

vkd3d_sampler_entry_compare(k, en) ==
    /\ k.Filter = en.desc.Filter
    /\ k.AddressU = en.desc.AddressU
    /\ k.AddressV = en.desc.AddressV
    /\ k.AddressW = en.desc.AddressW
    /\ float_equal(k.MipLODBias, en.desc.MipLODBias)
    /\ k.MaxAnisotropy = en.desc.MaxAnisotropy
    /\ k.ComparisonFunc = en.desc.ComparisonFunc
    /\ k.BorderColor = en.desc.BorderColor
    /\ float_equal(k.MinLOD, en.desc.MinLOD)
    /\ float_equal(k.MaxLOD, en.desc.MaxLOD)

\* hash_map_find(&state->map, desc): the entries a probe for desc stops at.
StaticEntries(m, k) ==
    {en \in m : /\ vkd3d_sampler_entry_hash(en.desc) = vkd3d_sampler_entry_hash(k)
                /\ vkd3d_sampler_entry_compare(k, en)}

\* The calls that are between pthread_mutex_lock and pthread_mutex_unlock.
InStaticSection == {t \in Threads : static_call[t].pc \in {"find", "create", "insert"}}

StaticCallsInProgress == {t \in Threads : static_call[t].pc # "idle"}

\* The call of thread t returns hr and, with S_OK, the sampler in *vk_sampler.
ReturnStaticSampler(t, hr, vk_sampler) ==
    /\ static_call' = [static_call EXCEPT ![t] = NoStaticCall]
    /\ static_returned' =
           IF hr = "S_OK"
           THEN [static_returned EXCEPT
                    ![static_call[t].desc] =
                        @ \cup {[thread |-> t, vk_sampler |-> vk_sampler]}]
           ELSE static_returned

\* vkd3d_sampler_state_create_static_sampler is called with desc; a
\* pthread_mutex_lock that fails returns hresult_from_errno(rc) at once.
CreateStaticSamplerEnter(t, desc) ==
    /\ StaticOnly
    /\ static_call[t].pc = "idle"
    /\ Len(vk_samplers) + Cardinality(StaticCallsInProgress) < MaxSamplers
    /\ \E rc \in {0, 22} :
          IF rc # 0
          THEN UNCHANGED <<static_call, static_returned>>
          ELSE /\ static_call' = [static_call EXCEPT
                                     ![t] = [NoStaticCall EXCEPT !.pc = "lock",
                                                                 !.desc = desc]]
               /\ UNCHANGED static_returned
    /\ UNCHANGED <<sampler_state, static_map, vk_samplers>>

\* The lock is taken without waiting for its owner.
StaticMutexLock_NoWait(t) ==
    /\ StaticOnly
    /\ static_call[t].pc = "lock"
    /\ sampler_state' = [sampler_state EXCEPT !.mutex = t]
    /\ static_call' = [static_call EXCEPT ![t].pc = "find"]
    /\ UNCHANGED <<static_map, vk_samplers, static_returned>>

\* pthread_mutex_lock returns 0.
StaticMutexLock(t) ==
    /\ StaticOnly
    /\ static_call[t].pc = "lock"
    /\ sampler_state.mutex = 0
    /\ sampler_state' = [sampler_state EXCEPT !.mutex = t]
    /\ static_call' = [static_call EXCEPT ![t].pc = "find"]
    /\ UNCHANGED <<static_map, vk_samplers, static_returned>>

\* hash_map_find: a hit copies the entry's sampler out, unlocks and returns.
StaticSamplerFind(t) ==
    /\ StaticOnly
    /\ static_call[t].pc = "find"
    /\ LET found == StaticEntries(static_map, static_call[t].desc)
       IN  IF found # {}
           THEN /\ ReturnStaticSampler(t, "S_OK",
                                       (CHOOSE en \in found : TRUE).vk_sampler)
                /\ sampler_state' = [sampler_state EXCEPT !.mutex = 0]
           ELSE /\ static_call' = [static_call EXCEPT ![t].pc = "create"]
                /\ UNCHANGED <<sampler_state, static_returned>>
    /\ UNCHANGED <<static_map, vk_samplers>>

\* d3d12_create_static_sampler: a failure unlocks and is returned.
CreateStaticSampler(t) ==
    /\ StaticOnly
    /\ static_call[t].pc = "create"
    /\ \E hr \in {"S_OK", "E_OUTOFMEMORY"} :
          IF hr # "S_OK"
          THEN /\ ReturnStaticSampler(t, hr, 0)
               /\ sampler_state' = [sampler_state EXCEPT !.mutex = 0]
               /\ UNCHANGED vk_samplers
          ELSE /\ vk_samplers' = Append(vk_samplers, static_call[t].desc)
               /\ static_call' = [static_call EXCEPT
                                     ![t].pc = "insert",
                                     ![t].vk_sampler = Len(vk_samplers) + 1]
               /\ UNCHANGED <<sampler_state, static_returned>>
    /\ UNCHANGED static_map

\* hash_map_insert of the new entry; a failed insertion is logged only.  The
\* mutex is unlocked and S_OK returned either way.
StaticSamplerInsert(t) ==
    /\ StaticOnly
    /\ static_call[t].pc = "insert"
    /\ \E inserted \in BOOLEAN :
          static_map' = IF inserted
                        THEN static_map \cup
                                 {[desc |-> static_call[t].desc,
                                   vk_sampler |-> static_call[t].vk_sampler]}
                        ELSE static_map
    /\ ReturnStaticSampler(t, "S_OK", static_call[t].vk_sampler)
    /\ sampler_state' = [sampler_state EXCEPT !.mutex = 0]
    /\ UNCHANGED vk_samplers

NextStatic ==
    \/ \E t \in Threads : \E desc \in StaticSamplerDescs :
           CreateStaticSamplerEnter(t, desc)
    \/ \E t \in Threads : StaticMutexLock(t)
    \/ \E t \in Threads : StaticSamplerFind(t)
    \/ \E t \in Threads : CreateStaticSampler(t)
    \/ \E t \in Threads : StaticSamplerInsert(t)

SpecStatic == InitSampler /\ [][NextStatic]_vars

(***************************************************************************)
(* Cookies: vkd3d_allocate_cookie hands out the values of one process-wide *)
(* 64-bit counter.  The calls of a behaviour stay far below 2^63, where    *)
(* the LONG64 would wrap.                                                  *)
(***************************************************************************)
\* What a cookie allocation leaves alone.
CookieOnly ==
    UNCHANGED <<viewVars, refVars, descVars, createVars, samplerVars,
                staticVars, heapLifeVars>>

\* The addend's value before the increment is returned.
InterlockedIncrement64_ReturnsOld(v) == [value |-> v + 1, result |-> v]

\* InterlockedIncrement64(&v): one atomic step that adds one and returns the
\* incremented value.
InterlockedIncrement64(v) == [value |-> v + 1, result |-> v + 1]

\* vkd3d_allocate_cookie, called by thread t.
vkd3d_allocate_cookie(t) ==
    /\ CookieOnly
    /\ Len(cookies) < MaxCookies
    /\ LET inc == InterlockedIncrement64(global_cookie_counter)
       IN  /\ global_cookie_counter' = inc.value
           /\ cookies' = Append(cookies, [thread |-> t, cookie |-> inc.result])

NextCookie == \E t \in Threads : vkd3d_allocate_cookie(t)

SpecCookie == InitSampler /\ [][NextCookie]_vars

(***************************************************************************)
(* The life of a descriptor heap object: d3d12_descriptor_heap_create,     *)
(* d3d12_descriptor_heap_AddRef, d3d12_descriptor_heap_Release and         *)
(* d3d12_descriptor_heap_cleanup.                                          *)
(***************************************************************************)
\* What an operation on the heap object leaves alone.
HeapLifeOnly ==
    UNCHANGED <<viewVars, refVars, descVars, createVars, samplerVars,
                staticVars, cookieVars>>

\* D3D12_DESCRIPTOR_HEAP_DESC and the device's configuration, by what the
\* creation reads: the heap type, the SHADER_VISIBLE flag and whether the
\* bindless state asks for side buffers (buffer_size != 0).
HeapDescs ==
    [Type : {"CBV_SRV_UAV", "SAMPLER", "RTV"}, shader_visible : BOOLEAN,
     side_buffers : BOOLEAN]

HeapFailPoints ==
    {"none", "malloc", "create_descriptor_pool", "create_descriptor_set",
     "create_buffer", "allocate_buffer_memory", "map_memory",
     "private_store_init"}

\* d3d12_device_get_descriptor_heap_gpu_va: a virtual base address of the
\* device's allocator, never 0.
d3d12_device_get_descriptor_heap_gpu_va == 4096

\* d3d12_descriptor_heap_init_data_buffer: the heap and what is alive when
\* it returns; ok is SUCCEEDED(hr).
d3d12_descriptor_heap_init_data_buffer(h, l, desc, fail) ==
    IF ~(desc.Type = "CBV_SRV_UAV" /\ desc.side_buffers)
    THEN [ok |-> TRUE, h |-> h, l |-> l]
    ELSE IF desc.shader_visible
    THEN IF fail = "create_buffer" THEN [ok |-> FALSE, h |-> h, l |-> l]
         ELSE LET h1 == [h EXCEPT !.vk_buffer = TRUE]
                  l1 == l \cup {"vk_buffer"}
                  h2 == [h1 EXCEPT !.vk_memory = TRUE]
                  l2 == l1 \cup {"vk_memory"}
              IN  IF fail = "allocate_buffer_memory"
                  THEN [ok |-> FALSE, h |-> h1, l |-> l1]
                  ELSE IF fail = "map_memory"
                  THEN [ok |-> FALSE, h |-> h2, l |-> l2]
                  ELSE [ok |-> TRUE, h |-> [h2 EXCEPT !.host_memory = TRUE],
                        l |-> l2]
    ELSE [ok |-> TRUE, h |-> [h EXCEPT !.host_memory = TRUE],
          l |-> l \cup {"host_memory"}]

\* d3d12_descriptor_heap_init up to its return or its fail label: the heap,
\* what is alive and whether d3d12_device_add_ref was reached.
HeapInit(desc, fail) ==
    LET h0 == [NoHeapObject EXCEPT
                  !.state = "alive", !.refcount = 1,
                  !.desc = desc,
                  !.gpu_va = IF desc.shader_visible
                             THEN d3d12_device_get_descriptor_heap_gpu_va
                             ELSE 0]
        l0 == IF desc.shader_visible THEN {"object", "gpu_va"} ELSE {"object"}
        h1 == [h0 EXCEPT !.vk_descriptor_pool = TRUE]
        l1 == l0 \cup {"vk_descriptor_pool"}
        b == d3d12_descriptor_heap_init_data_buffer(h1, l1, desc, fail)
    IN  IF fail = "create_descriptor_pool"
        THEN [ok |-> FALSE, h |-> h0, l |-> l0]
        ELSE IF /\ fail = "create_descriptor_set"
                /\ desc.Type \in {"CBV_SRV_UAV", "SAMPLER"}
        THEN [ok |-> FALSE, h |-> h1, l |-> l1]
        ELSE IF ~b.ok THEN b
        ELSE IF fail = "private_store_init" THEN [ok |-> FALSE, h |-> b.h, l |-> b.l]
        ELSE [ok |-> TRUE, h |-> b.h, l |-> b.l \cup {"private_store"}]

\* d3d12_descriptor_heap_cleanup that leaves the host memory allocated.
d3d12_descriptor_heap_cleanup_KeepsHostMemory(h, l) ==
    [l |-> l \ {"gpu_va", "vk_buffer", "vk_memory", "vk_descriptor_pool"},
     calls |-> (IF h.gpu_va # 0
                THEN <<"d3d12_device_return_descriptor_heap_gpu_va">>
                ELSE <<>>)
               \o <<"vkDestroyBuffer", "vkd3d_free_device_memory",
                    "vkDestroyDescriptorPool">>]

\* d3d12_descriptor_heap_cleanup: what is left alive of l and the calls made,
\* in order.  Destroying a null handle and freeing a null pointer do nothing.
d3d12_descriptor_heap_cleanup(h, l) ==
    LET l1 == IF ~h.vk_memory THEN l \ {"host_memory"} ELSE l
        l2 == IF h.gpu_va # 0 THEN l1 \ {"gpu_va"} ELSE l1
    IN  [l |-> l2 \ {"vk_buffer", "vk_memory", "vk_descriptor_pool"},
         calls |-> (IF ~h.vk_memory THEN <<"vkd3d_free">> ELSE <<>>)
                   \o (IF h.gpu_va # 0
                       THEN <<"d3d12_device_return_descriptor_heap_gpu_va">>
                       ELSE <<>>)
                   \o <<"vkDestroyBuffer", "vkd3d_free_device_memory",
                        "vkDestroyDescriptorPool">>]

\* d3d12_descriptor_heap_create, called by thread t, which receives the one
\* reference of the new heap.  A heap that failed to initialise has been
\* cleaned up and freed when the call returns.
d3d12_descriptor_heap_create(t, desc, fail) ==
    /\ HeapLifeOnly
    /\ heap_object.state = "none"
    /\ hpc[t] = "idle"
    /\ IF desc.shader_visible /\ desc.Type = "RTV"
       THEN /\ heap_teardown' = [heap_teardown EXCEPT !.hr = "E_INVALIDARG"]
            /\ UNCHANGED <<heap_object, heap_live, heap_deviceRefs, heapHeld>>
       ELSE IF fail = "malloc"
       THEN /\ heap_teardown' = [heap_teardown EXCEPT !.hr = "E_OUTOFMEMORY"]
            /\ UNCHANGED <<heap_object, heap_live, heap_deviceRefs, heapHeld>>
       ELSE LET i == HeapInit(desc, fail)
                c == d3d12_descriptor_heap_cleanup(i.h, i.l)
            IN  IF i.ok
                THEN /\ heap_object' = i.h
                     /\ heap_live' = i.l
                     /\ heap_deviceRefs' = heap_deviceRefs + 1
                     /\ heapHeld' = [heapHeld EXCEPT ![t] = 1]
                     /\ heap_teardown' = [heap_teardown EXCEPT !.hr = "S_OK"]
                ELSE /\ heap_object' = [i.h EXCEPT !.state = "failed"]
                     /\ heap_live' = c.l \ {"object"}
                     /\ heap_teardown' =
                            [heap_teardown EXCEPT !.cleanups = @ + 1,
                                                  !.calls = c.calls,
                                                  !.hr = fail]
                     /\ UNCHANGED <<heap_deviceRefs, heapHeld>>
    /\ UNCHANGED hpc

\* d3d12_descriptor_heap_AddRef by the owner of a reference.
d3d12_descriptor_heap_AddRef(t) ==
    /\ HeapLifeOnly
    /\ hpc[t] = "idle"
    /\ heapHeld[t] > 0
    /\ heap_object.refcount <= MaxRefs
    /\ heap_object' = [heap_object EXCEPT !.refcount = @ + 1]
    /\ heapHeld' = [heapHeld EXCEPT ![t] = @ + 1]
    /\ UNCHANGED <<heap_live, heap_deviceRefs, hpc, heap_teardown>>

\* One thread hands a reference it owns to another.
HeapPassReference(t, u) ==
    /\ HeapLifeOnly
    /\ hpc[t] = "idle"
    /\ hpc[u] = "idle"
    /\ t # u
    /\ heapHeld[t] > 0
    /\ heapHeld' = [heapHeld EXCEPT ![t] = @ - 1, ![u] = @ + 1]
    /\ UNCHANGED <<heap_object, heap_live, heap_deviceRefs, hpc, heap_teardown>>

\* d3d12_descriptor_heap_Release: InterlockedDecrement(&heap->refcount).
d3d12_descriptor_heap_Release(t) ==
    /\ HeapLifeOnly
    /\ hpc[t] = "idle"
    /\ heapHeld[t] > 0
    /\ heap_object' = [heap_object EXCEPT !.refcount = @ - 1]
    /\ heapHeld' = [heapHeld EXCEPT ![t] = @ - 1]
    /\ hpc' = [hpc EXCEPT ![t] = IF heap_object'.refcount = 0
                                 THEN "cleanup" ELSE "idle"]
    /\ UNCHANGED <<heap_live, heap_deviceRefs, heap_teardown>>

\* d3d12_descriptor_heap_Release, !refcount: d3d12_descriptor_heap_cleanup,
\* vkd3d_private_store_destroy, vkd3d_free_aligned and d3d12_device_release.
HeapFinalRelease(t) ==
    /\ HeapLifeOnly
    /\ hpc[t] = "cleanup"
    /\ LET c == d3d12_descriptor_heap_cleanup(heap_object, heap_live)
       IN  /\ heap_live' = c.l \ {"private_store", "object"}
           /\ heap_teardown' =
                  [heap_teardown EXCEPT
                      !.cleanups = @ + 1,
                      !.calls = c.calls,
                      !.device_released = @ + 1,
                      !.refsAtCleanup =
                          SumOver(heapHeld, Threads)
                          + Cardinality({u \in Threads \ {t} : hpc[u] # "idle"})]
    /\ heap_deviceRefs' = heap_deviceRefs - 1
    /\ heap_object' = [heap_object EXCEPT !.state = "destroyed"]
    /\ hpc' = [hpc EXCEPT ![t] = "idle"]
    /\ UNCHANGED heapHeld

NextHeapLife ==
    \/ \E t \in Threads : \E desc \in HeapDescs : \E fail \in HeapFailPoints :
           d3d12_descriptor_heap_create(t, desc, fail)
    \/ \E t \in Threads : d3d12_descriptor_heap_AddRef(t)
    \/ \E t, u \in Threads : HeapPassReference(t, u)
    \/ \E t \in Threads : d3d12_descriptor_heap_Release(t)
    \/ \E t \in Threads : HeapFinalRelease(t)

SpecHeapLife == InitSampler /\ [][NextHeapLife]_vars

(***************************************************************************)
(* Image layouts: the common layout a texture gets when it is created and  *)
(* the layout vkd3d_create_texture_srv and vkd3d_create_texture_uav write  *)
(* next to the image view.                                                 *)
(***************************************************************************)
\* What the creation of a texture and a view write on it leave alone.
LayoutOnly ==
    UNCHANGED <<viewVars, refVars, heap, descs, request, allocation_info,
                samplerVars, staticVars, cookieVars, heapLifeVars>>

\* The D3D12_RESOURCE_DESC fields the layout depends on, and whether the
\* image lives on a CPU-accessible heap for which the driver supports linear
\* tiling.
LayoutRequests ==
    [Flags : SUBSET {"ALLOW_SIMULTANEOUS_ACCESS", "DENY_SHADER_RESOURCE",
                     "ALLOW_DEPTH_STENCIL"},
     Layout : {"UNKNOWN", "ROW_MAJOR"},
     cpu_linear : BOOLEAN]

\* The layout chosen without the test of DENY_SHADER_RESOURCE.
vk_common_image_layout_from_d3d12_desc_NoDeny(desc) ==
    IF "ALLOW_SIMULTANEOUS_ACCESS" \in desc.Flags
    THEN "VK_IMAGE_LAYOUT_GENERAL"
    ELSE IF desc.Layout = "ROW_MAJOR" THEN "VK_IMAGE_LAYOUT_GENERAL"
    ELSE IF "ALLOW_DEPTH_STENCIL" \in desc.Flags
    THEN "VK_IMAGE_LAYOUT_DEPTH_STENCIL_READ_ONLY_OPTIMAL"
    ELSE "VK_IMAGE_LAYOUT_SHADER_READ_ONLY_OPTIMAL"

vk_common_image_layout_from_d3d12_desc(desc) ==
    IF "ALLOW_SIMULTANEOUS_ACCESS" \in desc.Flags
    THEN "VK_IMAGE_LAYOUT_GENERAL"
    ELSE IF desc.Layout = "ROW_MAJOR" THEN "VK_IMAGE_LAYOUT_GENERAL"
    ELSE IF "DENY_SHADER_RESOURCE" \in desc.Flags
    THEN "VK_IMAGE_LAYOUT_DEPTH_STENCIL_ATTACHMENT_OPTIMAL"
    ELSE IF "ALLOW_DEPTH_STENCIL" \in desc.Flags
    THEN "VK_IMAGE_LAYOUT_DEPTH_STENCIL_READ_ONLY_OPTIMAL"
    ELSE "VK_IMAGE_LAYOUT_SHADER_READ_ONLY_OPTIMAL"

\* vkd3d_create_image with a resource: image_info.tiling and, from it,
\* resource->common_layout.
CreateImage ==
    /\ LayoutOnly
    /\ created = NoCreate
    /\ LET tiling == IF request.Layout = "ROW_MAJOR" \/ request.cpu_linear
                     THEN "LINEAR" ELSE "OPTIMAL"
       IN  created' =
               [op |-> "vkd3d_create_image", tiling |-> tiling,
                common_layout |->
                    IF tiling = "LINEAR" THEN "VK_IMAGE_LAYOUT_GENERAL"
                    ELSE vk_common_image_layout_from_d3d12_desc(request)]
    /\ UNCHANGED lastWrite

\* vkd3d_create_image_resource: the common layout of an external image comes
\* from its description alone.
CreateImageResource ==
    /\ LayoutOnly
    /\ created = NoCreate
    /\ created' =
           [op |-> "vkd3d_create_image_resource", tiling |-> "unknown",
            common_layout |-> vk_common_image_layout_from_d3d12_desc(request)]
    /\ UNCHANGED lastWrite

\* vkd3d_create_texture_srv on the image: nothing is written when the view
\* cannot be created.
WriteTextureSrv(view_created) ==
    /\ LayoutOnly
    /\ created # NoCreate
    /\ lastWrite' =
           [op |-> "texture_srv", written |-> view_created,
            type |-> VK_DESCRIPTOR_TYPE_SAMPLED_IMAGE,
            imageLayout |-> IF view_created THEN created.common_layout
                            ELSE "none"]
    /\ UNCHANGED created

\* vkd3d_create_texture_uav on the image.
WriteTextureUav(view_created) ==
    /\ LayoutOnly
    /\ created # NoCreate
    /\ lastWrite' =
           [op |-> "texture_uav", written |-> view_created,
            type |-> VK_DESCRIPTOR_TYPE_STORAGE_IMAGE,
            imageLayout |-> IF view_created THEN "VK_IMAGE_LAYOUT_GENERAL"
                            ELSE "none"]
    /\ UNCHANGED created

InitLayout ==
    /\ InitViewMap({{}})
    /\ InitResource({[bufferDeviceAddress |-> TRUE]})
    /\ InitDescIdle
    /\ request \in LayoutRequests
    /\ allocation_info = NoAllocationInfo
    /\ created = NoCreate
    /\ InitSamplerIdle
    /\ InitCookieIdle
    /\ InitHeapIdle

NextLayout ==
    \/ CreateImage
    \/ CreateImageResource
    \/ \E view_created \in BOOLEAN : WriteTextureSrv(view_created)
    \/ \E view_created \in BOOLEAN : WriteTextureUav(view_created)

SpecLayout == InitLayout /\ [][NextLayout]_vars

(***************************************************************************)
(* Buffer view ranges: vkd3d_buffer_view_get_aligned_view on its own, for  *)
(* views of a part of a buffer.                                            *)
(***************************************************************************)
\* What the choice of a buffer view range leaves alone.
AlignedViewOnly ==
    UNCHANGED <<viewVars, refVars, heap, descs, createVars, samplerVars,
                staticVars, cookieVars, heapLifeVars>>

\* A buffer of 16 32-bit elements.
AlignedViewResource == [cookie |-> 1, dimension |-> "BUFFER", Width |-> 64]

\* The view requests: a typed view (byte_count 4) or a structured view
\* (byte_count 0) with a stride of one or two words.
AlignedViewRequests ==
    [byte_count : {4}, structured_stride : {0},
     first_element : 0..MaxFirstElement, num_elements : 0..MaxNumElements]
    \cup [byte_count : {0}, structured_stride : {4, 8},
          first_element : 0..(MaxFirstElement \div 2),
          num_elements : 0..(MaxNumElements \div 2)]

\* The call of vkd3d_buffer_view_get_aligned_view made by a buffer SRV or UAV
\* write for the request.
GetAlignedView(req) ==
    /\ AlignedViewOnly
    /\ lastWrite = NoWrite
    /\ LET v == vkd3d_buffer_view_get_aligned_view(
                    heap.bindless_state, AlignedViewResource, req.byte_count,
                    req.first_element, req.num_elements,
                    req.structured_stride,
                    [byte_offset |-> 0, byte_count |-> 0,
                     element_offset |-> 0, element_count |-> 0])
       IN  lastWrite' = [op |-> "aligned_view", request |-> req,
                         bound_range |-> v.bound_range,
                         first_element |-> v.first_element,
                         num_elements |-> v.num_elements]

NextAlignedView == \E req \in AlignedViewRequests : GetAlignedView(req)

SpecAlignedView == InitDescSpec /\ [][NextAlignedView]_vars

(***************************************************************************)
(* Properties of the view cache.                                           *)
(***************************************************************************)
ViewIdsCreated == 1..Len(views)

CreatedFor(k) == {v \in ViewIdsCreated : views[v].key = k}

AllIdle == \A t \in Threads : pc[t] = "idle"

\* C1 as stated: N threads that call vkd3d_view_map_create_view with equal
\* keys cause exactly one native view object to be created.
C1_OneNativeViewCreated ==
    \A k \in pool : Cardinality(CreatedFor(k)) <= 1

\* C1 as amended: every thread that misses the lookup creates a native view
\* of its own, but at most one entry is installed per key, every caller is
\* returned the installed view, and once the calls have returned the views
\* alive are exactly the installed ones, one per occupied entry.
C1_OneViewInstalled ==
    /\ \A k \in pool :
          /\ Cardinality(served[k]) <= 1
          /\ Cardinality(MatchingEntries(map, k)) <= 1
          /\ (served[k] # {} /\ ~mapDestroyed) =>
                 \E en \in MatchingEntries(map, k) :
                      served[k] = {en.view} /\ views[en.view].alive
    /\ (AllIdle /\ ~mapDestroyed) =>
          /\ used_count = Cardinality(map)
          /\ {v \in ViewIdsCreated : views[v].alive} = {en.view : en \in map}
          /\ Cardinality({en.view : en \in map}) = Cardinality(map)

\* Two threads raced on one key: both created a native view, both calls
\* have returned.
C1_Witness ==
    /\ AllIdle /\ ~mapDestroyed
    /\ \E k \in pool : Cardinality(CreatedFor(k)) >= 2 /\ served[k] # {}

\* C2: requests whose view keys differ, even in a single field, are served
\* by distinct native views, and vkd3d_view_map_destroy destroys as many
\* native views as there were distinct keys served.
C2_DistinctKeysDistinctViews ==
    /\ \A k1, k2 \in pool : k1 # k2 => served[k1] \cap served[k2] = {}
    /\ mapDestroyed =>
          teardownCount = Cardinality({k \in pool : served[k] # {}})

\* C3: no native driver call (view creation or destruction) is made by a
\* thread that holds the view map's spinlock, in read or in write mode.
C3_NoNativeCallUnderLock == ~nativeUnderLock

\* A thread lost the insert race and destroyed its redundant view, so both
\* native creation and native destruction have happened inside calls.
C3_Witness ==
    /\ ~mapDestroyed
    /\ \E v \in ViewIdsCreated : ~views[v].alive /\ views[v].destroys = 1

C4_LocksHeld ==
    /\ ~tornRead
    /\ \A t \in Threads :
          /\ pc[t] \in {"find", "hit", "miss"} =>
                 /\ holds[t] = "read"
                 /\ ~spinlock.writer
                 /\ inserting = NoEntry
          /\ pc[t] \in {"insert", "insert_write", "inserted"} =>
                 /\ holds[t] = "write"
                 /\ spinlock.writer
                 /\ \A u \in Threads : u # t => holds[u] = "none"
          /\ pc[t] = "hit" =>
                 \E en \in MatchingEntries(map, key[t]) : en.view = e[t]

C4_EntriesStable ==
    ~mapDestroyed' => \A en \in map : en \in map'

\* C4: every lookup runs under the read lock and every insertion under the
\* write lock; a lookup never runs while an entry is being written, a hit
\* is an installed entry, and an installed entry stays as it is for every
\* later lookup.
C4_LookupsLinearizable == []C4_LocksHeld /\ [][C4_EntriesStable]_vars

\* A lookup for a key is waiting for the read lock while another thread is
\* in the middle of writing the entry for that key.
C4_Witness ==
    \E a, b \in Threads :
        /\ pc[a] = "acquire_read" /\ pc[b] = "insert_write"
        /\ key[a] = key[b]

(***************************************************************************)
(* Properties of the resource's reference counts and of its teardown.      *)
(***************************************************************************)
Destroying == {t \in Threads : rpc[t] = "destroy"}

\* C5: whatever the interleaving of AddRef, Release, incref and decref by
\* threads that own a reference, d3d12_resource_destroy runs once per
\* resource, and only from the decrement that took internal_refcount to
\* zero: at that moment no reference is owned and no call is in progress,
\* and a resource whose internal count is zero is destroyed or about to be.
C5_DestroyExactlyOnce ==
    /\ destroyCount + Cardinality(Destroying) <= 1
    /\ destroyCount = 1 =>
           /\ refsAtDestroy = 0
           /\ resource.state = "destroyed"
           /\ resource.internal_refcount = 0
           /\ resource.refcount = 0
           /\ \A t \in Threads : ~HoldsReference(t) /\ rpc[t] = "idle"
    /\ Destroying # {} => resource.internal_refcount = 0
    /\ (resource.state = "alive" /\ resource.internal_refcount = 0) =>
           Destroying # {}

\* The resource was destroyed after its public count went 0 -> 1 -> 0 while
\* an internal reference kept it alive.
C5_Witness ==
    /\ destroyCount = 1
    /\ ~immediate
    /\ deviceRefs > 0

\* C6: the device references held on behalf of a resource stay balanced
\* over 0 -> 1 -> 0 cycles of the public count: none is left once the
\* resource is destroyed.
C6_DeviceRefsBalanced ==
    resource.state = "destroyed" => deviceRefs = 0

\* C7: d3d12_resource_create_committed followed at once by the final Release
\* leaves nothing the creation acquired: no image, buffer, memory, VA-map
\* entry, cached view, private store, object or device reference.
C7_CommittedRoundTrip ==
    (resource.state = "destroyed" /\ immediate) =>
        /\ live = {}
        /\ deviceRefs = 0
        /\ map = {}
        /\ \A v \in 1..Len(views) : ~views[v].alive

\* A committed texture with an implicit VRS view went through the round trip.
C7_Witness ==
    /\ resource.state = "destroyed"
    /\ immediate
    /\ resource.dimension = "TEXTURE2D"
    /\ resource.vrs_view
    /\ resource.vk_memory

\* C8: a native view is destroyed exactly once, and only when no reference
\* to it is left: neither the cache slot's nor one taken with
\* vkd3d_view_incref.
C8_DestroyedOnlyAtZero ==
    \A v \in ViewIdsCreated :
        /\ views[v].destroys <= 1
        /\ views[v].destroys >= 1 => views[v].refsAtDestroy = 0

(***************************************************************************)
(* Properties of descriptor writes.                                        *)
(***************************************************************************)
\* The last write went through the null descriptor template.
LastWasNullWrite ==
    \/ lastWrite.op = "null"
    \/ /\ lastWrite.op = "cbv"
       /\ lastWrite.accepted
       /\ lastWrite.location = 0

\* The last write bound a CBV at an address inside a resource.
LastWasCbvBind ==
    /\ lastWrite.op = "cbv"
    /\ lastWrite.accepted
    /\ lastWrite.location # 0

\* The placeholder type a null write records: the requested one on a heap
\* with mutable descriptors, the dummy type 0 otherwise.
RecordedNullType(ty) ==
    IF heap.null_descriptor_template.has_mutable_descriptors THEN ty ELSE 0

\* C9 as stated: a null write to a slot that is already null makes no native
\* update when the slot's placeholder type is the requested one, and exactly
\* one when it differs, recording the requested type.
C9_NullWriteByRequestedType ==
    (LastWasNullWrite /\ "NON_NULL" \notin lastWrite.before.flags) =>
        IF lastWrite.before.current_null_type = lastWrite.type
        THEN lastWrite.updates = 0
        ELSE /\ lastWrite.updates = 1
             /\ descs[lastWrite.slot].current_null_type = lastWrite.type

\* C9: a null write to a slot that is already null makes no native update
\* when the slot's recorded placeholder type is the one the write would
\* record, and exactly one when it differs, recording that type: the
\* requested type on a heap with mutable descriptors, the dummy type 0 on a
\* heap without, where a null write to a null slot therefore never updates.
C9_NullWriteByRecordedType ==
    (LastWasNullWrite /\ "NON_NULL" \notin lastWrite.before.flags) =>
        IF lastWrite.before.current_null_type = RecordedNullType(lastWrite.type)
        THEN /\ lastWrite.updates = 0
             /\ descs[lastWrite.slot] = lastWrite.before
        ELSE /\ lastWrite.updates = 1
             /\ descs[lastWrite.slot].current_null_type =
                    RecordedNullType(lastWrite.type)

\* A null slot was written null with another placeholder type on a heap
\* with mutable descriptors.
C9_Witness ==
    /\ LastWasNullWrite
    /\ "NON_NULL" \notin lastWrite.before.flags
    /\ lastWrite.before.current_null_type # 0
    /\ lastWrite.before.current_null_type # lastWrite.type
    /\ lastWrite.updates = 1

\* C10 as stated: binding a CBV inside resource R gives the slot R's cookie
\* and NON_NULL; a following CBV write with BufferLocation 0 leaves the slot
\* null with cookie 0 and the constant-buffer descriptor type as null type.
C10_CbvThenNullRecordsCbvType ==
    /\ LastWasCbvBind =>
           /\ descs[lastWrite.slot].cookie =
                  vkd3d_va_map_deref(lastWrite.location).cookie
           /\ "NON_NULL" \in descs[lastWrite.slot].flags
    /\ (LastWasNullWrite /\ lastWrite.op = "cbv"
            /\ "NON_NULL" \in lastWrite.before.flags) =>
           /\ descs[lastWrite.slot].cookie = 0
           /\ "NON_NULL" \notin descs[lastWrite.slot].flags
           /\ descs[lastWrite.slot].current_null_type = lastWrite.type

\* C10: binding a CBV inside resource R gives the slot R's cookie and
\* NON_NULL; a following CBV write with BufferLocation 0 leaves the slot
\* null with cookie 0, no flag, and as null type the constant-buffer
\* descriptor type on a heap with mutable descriptors, 0 on a heap without.
C10_CbvThenNull ==
    /\ LastWasCbvBind =>
           /\ descs[lastWrite.slot].cookie =
                  vkd3d_va_map_deref(lastWrite.location).cookie
           /\ "NON_NULL" \in descs[lastWrite.slot].flags
    /\ (LastWasNullWrite /\ lastWrite.op = "cbv"
            /\ "NON_NULL" \in lastWrite.before.flags) =>
           /\ descs[lastWrite.slot].cookie = 0
           /\ descs[lastWrite.slot].flags = {}
           /\ descs[lastWrite.slot].current_null_type =
                  RecordedNullType(lastWrite.type)

\* A slot bound to a CBV was written with BufferLocation 0 on a heap without
\* mutable descriptors.
C10_Witness ==
    /\ LastWasNullWrite
    /\ lastWrite.op = "cbv"
    /\ "NON_NULL" \in lastWrite.before.flags
    /\ lastWrite.before.cookie # 0
    /\ ~heap.null_descriptor_template.has_mutable_descriptors
    /\ descs[lastWrite.slot].cookie = 0

\* The slot already holds the CBV that desc describes: same resource, same
\* offset into it, and a range equal to the requested size.
HoldsCbv(d, desc) ==
    /\ CbvDescAccepted(desc)
    /\ desc.BufferLocation # 0
    /\ "NON_NULL" \in d.flags
    /\ d.cookie = vkd3d_va_map_deref(desc.BufferLocation).cookie
    /\ d.buffer.offset =
           desc.BufferLocation - vkd3d_va_map_deref(desc.BufferLocation).va
    /\ d.buffer.range = desc.SizeInBytes

\* C11: a CBV write to a slot that already holds a CBV at the same device
\* address and of the same size issues no native descriptor write.
C11_RebindIssuesNoWrite ==
    [][\A s \in Slots : \A desc \in CbvDescs :
           (HoldsCbv(descs[s], desc) /\ CreateConstantBufferView(s, desc))
               => lastWrite'.updates = 0]_vars

\* A copy by d3d12_desc_copy_single: the device has no mutable descriptor
\* type, so d3d12_desc_copy copies slot by slot.
SingleCopy(d, s) ==
    /\ "MUTABLE_TYPE" \notin heap.bindless_state.flags
    /\ CopyDescriptors(d, s)

\* The cookies of destination and source match, their flags are equal and
\* the source does not use the raw VA aux buffer.
CookiesAndFlagsMatch(dst, src) ==
    /\ src.cookie = dst.cookie
    /\ src.flags = dst.flags
    /\ "RAW_VA_AUX_BUFFER" \notin src.flags

\* C12 as stated: a single-slot copy whose destination and source cookies
\* match and whose flags do not differ makes no native copy and stores to
\* neither metadata nor side table; any cookie difference, flag difference
\* or raw VA use by the source rewrites the destination.
C12_SkipOnCookieAndFlags ==
    [][\A d \in CopySlots : \A s \in CopySlots :
           SingleCopy(d, s) =>
               IF CookiesAndFlagsMatch(descs[d], descs[s])
               THEN /\ lastWrite'.updates = 0
                    /\ lastWrite'.wrote = {}
               ELSE {"metadata", "info"} \subseteq lastWrite'.wrote]_vars

\* C12, amended: the copy is skipped when cookies and flags match, the source
\* does not use the raw VA aux buffer and, for a descriptor with an offset
\* and range, these match too; a skipped copy makes no native copy and leaves
\* metadata and info alone, but still stores the source's buffer_ranges entry
\* when the source has BUFFER_OFFSET.  Every other copy rewrites metadata and
\* info from the source and copies one native descriptor per set of the
\* source's mask.
C12_SkipOnCookieFlagsAndRange ==
    [][\A d \in CopySlots : \A s \in CopySlots :
           SingleCopy(d, s) =>
               IF /\ CookiesAndFlagsMatch(descs[d], descs[s])
                  /\ "OFFSET_RANGE" \in descs[s].flags =>
                         descs[d].buffer = descs[s].buffer
               THEN /\ lastWrite'.updates = 0
                    /\ lastWrite'.wrote =
                           IF "BUFFER_OFFSET" \in descs[s].flags
                           THEN {"buffer_ranges"} ELSE {}
                    /\ descs'[d] =
                           [descs[d] EXCEPT
                               !.bound_range =
                                   IF "BUFFER_OFFSET" \in descs[s].flags
                                   THEN descs[s].bound_range ELSE @]
               ELSE /\ {"metadata", "info"} \subseteq lastWrite'.wrote
                    /\ descs'[d].cookie = descs[s].cookie
                    /\ descs'[d].flags = descs[s].flags
                    /\ descs'[d].set_info_mask = descs[s].set_info_mask
                    /\ descs'[d].buffer = descs[s].buffer
                    /\ lastWrite'.updates =
                           IF descs[s].set_info_mask = {} THEN 0 ELSE 1]_vars

\* A single-slot copy onto a bound descriptor was skipped.
C12_Witness ==
    /\ lastWrite.op = "copy"
    /\ "MUTABLE_TYPE" \notin heap.bindless_state.flags
    /\ "metadata" \notin lastWrite.wrote
    /\ lastWrite.updates = 0
    /\ "NON_NULL" \in descs[lastWrite.slot].flags
    /\ descs[lastWrite.slot].cookie = descs[lastWrite.src].cookie

\* The last operation was an SRV or UAV write that returned without
\* resolving its view.
LastWasUnresolvedView ==
    /\ lastWrite.op \in {"srv", "srv_rtas", "uav"}
    /\ ~lastWrite.accepted

\* The slot is as d3d12_descriptor_heap_write_null_descriptor_template
\* leaves it.
IsNullDescriptor(d) ==
    /\ d.cookie = 0
    /\ d.flags = {}
    /\ d.set_info_mask = heap.null_descriptor_template.set_info_mask

\* C13: after an SRV or UAV write that failed to resolve, the slot is in the
\* null state, whatever it held before.
C13_UnresolvedViewLeavesNull ==
    LastWasUnresolvedView => IsNullDescriptor(descs[lastWrite.slot])

\* An SRV write with the acceleration-structure view dimension that reached
\* vkd3d_create_buffer_srv.
RtasWrite(s, res, desc) ==
    /\ desc.ViewDimension = "RAYTRACING_ACCELERATION_STRUCTURE"
    /\ res = NoDescResource \/ d3d12_resource_is_buffer(res)
    /\ CreateShaderResourceView(s, res, desc)

\* C14 as stated: every SRV write with the acceleration-structure view
\* dimension issues no native descriptor write and leaves the slot with the
\* address in its raw VA entry, cookie 0, an empty set_info_mask and the flags
\* RAW_VA_AUX_BUFFER and NON_NULL.
C14_RtasIsRawVaOnly ==
    [][\A s \in ViewSlots : \A res \in DescResources : \A desc \in SrvDescs :
           RtasWrite(s, res, desc) =>
               /\ lastWrite'.updates = 0
               /\ descs'[s].raw_va = desc.Location
               /\ descs'[s].cookie = 0
               /\ descs'[s].set_info_mask = {}
               /\ descs'[s].flags = {"RAW_VA_AUX_BUFFER", "NON_NULL"}]_vars

\* C14, amended: with a non-zero location on a device that supports ray
\* tracing, the write makes no native descriptor write and stores nothing but
\* the address in the raw VA entry and the metadata (cookie 0, empty
\* set_info_mask, RAW_VA_AUX_BUFFER and NON_NULL).  With location 0 it is a
\* null-template write of type SAMPLED_IMAGE, and on a device without ray
\* tracing it leaves the slot as it was.
C14_RtasByLocationAndSupport ==
    [][\A s \in ViewSlots : \A res \in DescResources : \A desc \in SrvDescs :
           RtasWrite(s, res, desc) =>
               IF desc.Location = 0
               THEN descs'[s] =
                        d3d12_descriptor_heap_write_null_descriptor_template(
                            heap, descs[s],
                            VK_DESCRIPTOR_TYPE_SAMPLED_IMAGE).desc
               ELSE IF heap.bindless_state.ray_tracing
               THEN /\ lastWrite'.updates = 0
                    /\ lastWrite'.wrote = {"raw_va", "metadata"}
                    /\ descs'[s] =
                           [descs[s] EXCEPT
                               !.raw_va = desc.Location,
                               !.cookie = 0,
                               !.set_info_mask = {},
                               !.flags = {"RAW_VA_AUX_BUFFER", "NON_NULL"}]
               ELSE /\ lastWrite'.updates = 0
                    /\ lastWrite'.wrote = {}
                    /\ descs'[s] = descs[s]]_vars

\* An acceleration-structure SRV was written over a bound view: the slot
\* holds only the raw address.
C14_Witness ==
    /\ lastWrite.op = "srv_rtas"
    /\ lastWrite.location # 0
    /\ lastWrite.accepted
    /\ lastWrite.updates = 0
    /\ descs[lastWrite.slot].raw_va = lastWrite.location
    /\ descs[lastWrite.slot].cookie = 0
    /\ descs[lastWrite.slot].view # 0

(***************************************************************************)
(* Properties of placed and reserved resource creation.                    *)
(***************************************************************************)
\* The texture of the request was placed, with no native failure, into a
\* heap without flags whose size is the SizeInBytes reported for it, and
\* the creation arguments are valid for that heap.
PlacedIntoReportedSize ==
    /\ created.op = "placed"
    /\ allocation_info.hr = "S_OK"
    /\ created.heap.size = allocation_info.SizeInBytes
    /\ created.heap.Flags = {}
    /\ created.heap.vk_memory
    /\ created.fail = "none"
    /\ d3d12_resource_validate_create_info(
           request.desc, created.heap.Properties, request.args) = "S_OK"

\* C15: a description that validates can be placed at offset 0 of a heap
\* whose size is the SizeInBytes that vkd3d_get_image_allocation_info
\* reported for it, and placing it at offset SizeInBytes - 1 of that heap
\* fails with E_INVALIDARG.
C15_PlacedRoundTrip ==
    PlacedIntoReportedSize =>
        /\ created.offset = 0 => created.result.hr = "S_OK"
        /\ created.offset = allocation_info.SizeInBytes - 1
               => created.result.hr = "E_INVALIDARG"

\* d3d12_resource_create_reserved has returned S_OK for the request.
ReservedCreated ==
    /\ created.op = "reserved"
    /\ created.result.hr = "S_OK"

\* C16: a reserved buffer of width W has ceil(W / VKD3D_TILE_SIZE) tiles in
\* its tile table, and tile i covers the bytes from i * VKD3D_TILE_SIZE up
\* to min((i + 1) * VKD3D_TILE_SIZE, W).
C16_ReservedBufferTiles ==
    (ReservedCreated /\ request.desc.Dimension = "BUFFER") =>
        LET W == request.desc.Width
            tiles == created.result.sparse.tiles
        IN  /\ (Len(tiles) - 1) * VKD3D_TILE_SIZE < W
            /\ W <= Len(tiles) * VKD3D_TILE_SIZE
            /\ \A i \in 1..Len(tiles) :
                   /\ tiles[i].offset = (i - 1) * VKD3D_TILE_SIZE
                   /\ tiles[i].offset + tiles[i].length
                          = min(i * VKD3D_TILE_SIZE, W)

\* A reserved buffer whose last tile is cut short by the buffer's end.
C16_Witness ==
    /\ ReservedCreated
    /\ request.desc.Dimension = "BUFFER"
    /\ Len(created.result.sparse.tiles) >= 2
    /\ created.result.sparse.tiles[Len(created.result.sparse.tiles)].length
           < VKD3D_TILE_SIZE

\* C17: after d3d12_resource_create_reserved succeeds the tile table has as
\* many entries as the tiling query counted tiles, and every entry is
\* unbound: no VkDeviceMemory and memory offset 0.
C17_TilesStartUnbound ==
    ReservedCreated =>
        LET sparse == created.result.sparse
        IN  /\ Len(sparse.tiles) = sparse.tile_count
            /\ sparse.tile_count
                   = d3d12_resource_get_tiling(
                         request.desc, request.native).total_tile_count
            /\ \A i \in 1..Len(sparse.tiles) :
                   /\ sparse.tiles[i].vk_memory = "VK_NULL_HANDLE"
                   /\ sparse.tiles[i].vk_offset = 0

\* A reserved texture with standard tiles and a packed mip tail.
C17_Witness ==
    /\ ReservedCreated
    /\ request.desc.Dimension = "TEXTURE2D"
    /\ \E i \in 1..Len(created.result.sparse.tiles) :
           created.result.sparse.tiles[i].kind = "image"
    /\ \E i \in 1..Len(created.result.sparse.tiles) :
           created.result.sparse.tiles[i].kind = "buffer"

\* The declared flags exclude each other.
FlagsExclusive(desc) ==
    \/ {"ALLOW_SIMULTANEOUS_ACCESS", "ALLOW_DEPTH_STENCIL"} \subseteq desc.Flags
    \/ {"ALLOW_UNORDERED_ACCESS", "ALLOW_DEPTH_STENCIL"} \subseteq desc.Flags

\* A buffer description departs from the buffer defaults.
BufferConstraintViolated(desc) ==
    /\ desc.Dimension = "BUFFER"
    /\ \/ desc.MipLevels # 1
       \/ desc.Height # 1
       \/ desc.DepthOrArraySize # 1
       \/ desc.Format # "UNKNOWN"
       \/ desc.SampleDesc.Count # 1
       \/ desc.Layout # "ROW_MAJOR"

\* C18: creating a resource fails with E_INVALIDARG whenever the declared
\* flags exclude each other (simultaneous access or unordered access
\* together with depth-stencil) or a buffer's mip count, height, depth,
\* format, sample count or layout is not the buffer default.
C18_InvalidDescRejected ==
    (/\ created.op # "none"
     /\ FlagsExclusive(request.desc) \/ BufferConstraintViolated(request.desc))
        => created.result.hr = "E_INVALIDARG"

\* A committed 2D texture, valid but for its flags, was refused.
C18_Witness ==
    /\ created.op = "committed"
    /\ request.desc.Dimension = "TEXTURE2D"
    /\ FlagsExclusive(request.desc)
    /\ d3d12_resource_validate_desc([request.desc EXCEPT !.Flags = {}]) = "S_OK"
    /\ created.result.hr = "E_INVALIDARG"

\* C19: every E_INVALIDARG of create_committed, create_placed and
\* create_reserved is decided before any native call is made for the
\* request, and no native object is created and then discarded.
C19_InvalidArgBeforeNativeCalls ==
    (created.op # "none" /\ created.result.hr = "E_INVALIDARG")
        => created.result.calls = <<>>

\* The heap's deny flags name the category of the resource.
DeniedByHeap(desc, h) ==
    \/ desc.Dimension = "BUFFER" /\ "DENY_BUFFERS" \in h.Flags
    \/ /\ desc.Dimension # "BUFFER"
       /\ desc.Flags \cap {"ALLOW_RENDER_TARGET", "ALLOW_DEPTH_STENCIL"} # {}
       /\ "DENY_RT_DS_TEXTURES" \in h.Flags
    \/ /\ desc.Dimension # "BUFFER"
       /\ desc.Flags \cap {"ALLOW_RENDER_TARGET", "ALLOW_DEPTH_STENCIL"} = {}
       /\ "DENY_NON_RT_DS_TEXTURES" \in h.Flags

\* C20: d3d12_resource_create_placed fails with E_INVALIDARG whenever the
\* heap denies the category of the resource: buffers on DENY_BUFFERS,
\* render-target or depth-stencil textures on DENY_RT_DS_TEXTURES, other
\* textures on DENY_NON_RT_DS_TEXTURES.
C20_DeniedCategoryRejected ==
    (created.op = "placed" /\ DeniedByHeap(request.desc, created.heap))
        => created.result.hr = "E_INVALIDARG"

\* A valid render-target texture was refused by a heap large enough for it.
C20_Witness ==
    /\ created.op = "placed"
    /\ request.desc.Dimension = "TEXTURE2D"
    /\ "ALLOW_RENDER_TARGET" \in request.desc.Flags
    /\ "DENY_RT_DS_TEXTURES" \in created.heap.Flags
    /\ d3d12_resource_create_placed(
           request.desc, [created.heap EXCEPT !.Flags = {}], created.offset,
           request.args, request.native, created.fail).hr = "S_OK"
    /\ created.result.hr = "E_INVALIDARG"

\* C21: whenever create_committed, create_placed or create_reserved returns
\* a failure, nothing of the resource is left: no native image or buffer, no
\* memory, no sparse table, no virtual address, not the object itself (which
\* holds the device reference), and no object is handed to the caller.
C21_FailureUnwinds ==
    (created.op # "none" /\ created.result.hr # "S_OK") =>
        /\ created.result.live = {}
        /\ created.result.object = NoResource

\* The driver reports a sparse requirement with the metadata aspect and a
\* mip tail for the image of the request.
MetadataRequired ==
    /\ request.desc.Dimension # "BUFFER"
    /\ \E i \in DOMAIN request.native.sparse_requirements :
           /\ "METADATA" \in request.native.sparse_requirements[i].aspectMask
           /\ request.native.sparse_requirements[i].imageMipTailSize # 0

\* The steps of binding the metadata memory that the driver can refuse.
MetadataFailPoints ==
    {"vkd3d_allocate_device_memory", "vkd3d_queue_acquire",
     "vkQueueBindSparse", "vkQueueWaitIdle"}

\* The reserved image of the request is one that is created when no step
\* fails.
ReservedImageCreatable ==
    /\ MetadataRequired
    /\ d3d12_resource_create_reserved(
           request.desc, request.args, request.native, "none").hr = "S_OK"

\* C22: when the driver refuses the metadata memory, the sparse queue, the
\* sparse bind or the wait for the queue, d3d12_resource_create_reserved
\* fails and the resource built so far is destroyed.
C22_MetadataFailureFailsCreation ==
    (/\ created.op = "reserved"
     /\ created.fail \in MetadataFailPoints
     /\ ReservedImageCreatable)
        => /\ created.result.hr # "S_OK"
           /\ created.result.live = {}
           /\ created.result.object = NoResource

\* The sum, over the requirements with the metadata aspect from index i on,
\* of the layer count times the mip tail size.
RECURSIVE MetadataMipTailBytes(_, _, _)
MetadataMipTailBytes(desc, reqs, i) ==
    IF i > Len(reqs) THEN 0
    ELSE (IF "METADATA" \in reqs[i].aspectMask
          THEN (IF reqs[i].single_miptail THEN 1
                ELSE d3d12_resource_desc_get_layer_count(desc))
               * reqs[i].imageMipTailSize
          ELSE 0)
         + MetadataMipTailBytes(desc, reqs, i + 1)

\* The creation call made the native call c.
Called(c) == \E i \in DOMAIN created.result.calls : created.result.calls[i] = c

\* C28: a reserved image whose sparse requirements include a metadata
\* aspect with a mip tail gets dedicated memory of the sum, over those
\* requirements, of layer count times mip tail size, bound by
\* vkQueueBindSparse and waited for with vkQueueWaitIdle before
\* d3d12_resource_create_reserved returns.
C28_MetadataBound ==
    (ReservedCreated /\ MetadataRequired) =>
        /\ created.result.sparse.vk_metadata_memory
               = MetadataMipTailBytes(
                     request.desc, request.native.sparse_requirements, 1)
        /\ "sparse_metadata_memory" \in created.result.live
        /\ Called("vkd3d_allocate_device_memory")
        /\ Called("vkQueueBindSparse")
        /\ Called("vkQueueWaitIdle")

(***************************************************************************)
(* Properties of the descriptor heap's slots.                              *)
(***************************************************************************)
\* C23: the heap keeps its slots, and slot i keeps the heap it was created
\* in and heap_offset i, through every descriptor write, null write and
\* descriptor copy, whether the source is in this heap or in another.
C23_SlotsKeepHeapAndOffset ==
    /\ DOMAIN descs = Slots
    /\ \A i \in Slots :
           /\ descs[i].heap = heap.id
           /\ descs[i].heap_offset = i

\* A descriptor was copied in from another slot number of the staging heap
\* and the copy was not skipped.
C23_Witness ==
    /\ lastWrite.op = "copy_heap"
    /\ lastWrite.src # lastWrite.slot
    /\ "metadata" \in lastWrite.wrote
    /\ descs[lastWrite.slot].cookie # 0

(***************************************************************************)
(* Properties of a lost insert race in the view cache.                     *)
(***************************************************************************)
\* The native views that exist.
LiveViews == {v \in ViewIdsCreated : views[v].alive}

\* C24: a thread that found another thread's entry at its insert has let
\* go of the write lock before it releases the view it created, holds the
\* only reference on that view, which is in no entry, and returns the view
\* of the entry found; no view is destroyed twice; and once every call has
\* returned there are as many native views alive as occupied entries.
C24_LoserReleasesRedundantView ==
    /\ \A t \in Threads :
           pc[t] = "decref" =>
               /\ holds[t] = "none"
               /\ redundant_view[t] # view[t]
               /\ views[redundant_view[t]].alive
               /\ views[redundant_view[t]].refcount = 1
               /\ redundant_view[t] \notin {en.view : en \in map}
               /\ \E en \in MatchingEntries(map, key[t]) : en.view = view[t]
    /\ \A v \in ViewIdsCreated :
           /\ views[v].destroys <= 1
           /\ views[v].alive <=> views[v].destroys = 0
    /\ AllIdle => Cardinality(LiveViews) = Cardinality(map)

\* A thread lost the race, released its view and returned the winner's:
\* every call has returned, the cache is in use, and of two views created
\* for one key one is destroyed and the other is the one served.
C24_Witness ==
    /\ AllIdle /\ ~mapDestroyed
    /\ \E a, b \in ViewIdsCreated :
           /\ a # b
           /\ views[a].key = views[b].key
           /\ ~views[a].alive /\ views[a].destroys = 1
           /\ views[b].alive
           /\ served[views[b].key] = {b}

(***************************************************************************)
(* Properties of the reported allocation info and of placement.            *)
(***************************************************************************)
\* What vkGetImageMemoryRequirements answers for the throwaway image of
\* vkd3d_get_image_allocation_info.
NativeRequirements ==
    request.native.requirements[
        vkd3d_create_image(DefaultHeapProperties, request.desc, FALSE,
                           request.native, "none").tiling]

\* The placement alignment the application expects for the request.
TargetAlignment ==
    IF request.desc.Alignment # 0 THEN request.desc.Alignment
    ELSE D3D12_DEFAULT_RESOURCE_PLACEMENT_ALIGNMENT

\* C25: the Alignment reported by vkd3d_get_image_allocation_info is never
\* above the placement alignment T of the request, and when the native
\* alignment A is above T the reported SizeInBytes leaves room to re-align:
\* for every heap offset that is a multiple of T, the offset aligned up to A
\* plus the native size is within offset + SizeInBytes.
C25_ClampedAlignmentPaddedSize ==
    allocation_info.hr = "S_OK" =>
        LET A == NativeRequirements.alignment
            T == TargetAlignment
        IN  /\ allocation_info.Alignment <= T
            /\ A > T =>
                   \A k \in 0..(A \div T) :
                       align(k * T, A) + NativeRequirements.size
                           <= k * T + allocation_info.SizeInBytes

\* Allocation info was reported for an image whose native alignment is
\* above the placement alignment of the request.
C25_Witness ==
    /\ allocation_info.hr = "S_OK"
    /\ NativeRequirements.alignment > TargetAlignment
    /\ allocation_info.Alignment = TargetAlignment
    /\ allocation_info.SizeInBytes > NativeRequirements.size

\* A resource was placed into a heap that device memory backs.
PlacedInHeap ==
    /\ created.op = "placed"
    /\ created.heap.vk_memory
    /\ created.result.hr = "S_OK"

\* The bytes the placed resource needs from its offset on.
PlacedSize ==
    IF request.desc.Dimension = "BUFFER" THEN request.desc.Width
    ELSE request.native.requirements[
             vkd3d_create_image(created.heap.Properties, request.desc, TRUE,
                                request.native, "none").tiling].size

\* C26: a resource that d3d12_resource_create_placed has placed lies inside
\* the heap, whatever the 64-bit heap_offset passed in: the offset it was
\* given, re-aligned for a texture, plus the size it needs is at most the
\* heap's size.
C26_PlacementInsideHeap ==
    PlacedInHeap =>
        /\ created.result.heap_offset >= 0
        /\ created.result.heap_offset + PlacedSize <= created.heap.size

\* Properties of the byte range of a constant buffer view

\* C27: a constant buffer view of SizeInBytes bytes at an address VA inside
\* the buffer R of the VA map is written with offset VA - R.va and range
\* min(SizeInBytes, R.size - offset): the range is positive and offset plus
\* range is at most R.size.
C27_CbvRangeClamped ==
    \A R \in VaMap :
        (/\ lastWrite.op = "cbv"
         /\ lastWrite.accepted
         /\ R.va <= lastWrite.location
         /\ lastWrite.location < R.va + R.size) =>
            LET b == descs[lastWrite.slot].buffer
                remaining == R.size - (lastWrite.location - R.va)
            IN  /\ b.offset = lastWrite.location - R.va
                /\ b.range = IF lastWrite.size < remaining
                             THEN lastWrite.size ELSE remaining
                /\ b.range > 0
                /\ b.offset + b.range <= R.size

\* A view asked for more bytes than its buffer has left after the offset.
C27_Witness ==
    /\ lastWrite.op = "cbv"
    /\ lastWrite.accepted
    /\ lastWrite.location = 1280
    /\ descs[lastWrite.slot].buffer = [offset |-> 256, range |-> 128]
    /\ "OFFSET_RANGE" \in descs[lastWrite.slot].flags

\* Properties of sampler keys and their border colour

NeedsBorderColor(k) ==
    d3d12_sampler_needs_border_color(k.sampler.AddressU, k.sampler.AddressV,
                                     k.sampler.AddressW)

\* Two sampler keys with the same value in every field but BorderColor.
AgreeButBorderColor(k1, k2) ==
    /\ k1.view_type = "SAMPLER"
    /\ k2.view_type = "SAMPLER"
    /\ [k1.sampler EXCEPT !.BorderColor = TransparentBlack]
           = [k2.sampler EXCEPT !.BorderColor = TransparentBlack]

\* C29: sampler keys that agree on every field but the border colour compare
\* equal, hash equally and are served one view, whatever their border
\* colours, when none of AddressU, AddressV and AddressW is BORDER; when one
\* is BORDER, keys with different border colours compare unequal and are
\* served different views.
C29_BorderColorOnlyWhenReferenced ==
    \A k1, k2 \in pool :
        (/\ AgreeButBorderColor(k1, k2)
         /\ served[k1] # {}
         /\ served[k2] # {}) =>
            IF ~NeedsBorderColor(k1)
            THEN /\ vkd3d_view_entry_compare(k1, k2)
                 /\ vkd3d_view_entry_hash(k1) = vkd3d_view_entry_hash(k2)
                 /\ Cardinality(served[k1] \cup served[k2]) <= 1
            ELSE k1.sampler.BorderColor # k2.sampler.BorderColor =>
                     /\ ~vkd3d_view_entry_compare(k1, k2)
                     /\ served[k1] \cap served[k2] = {}

\* Properties of the sampler state's descriptor pools

\* The answers of vkAllocateDescriptorSets that mean the pool has no room.
PoolExhausted(vr) ==
    vr \in {"VK_ERROR_OUT_OF_POOL_MEMORY", "VK_ERROR_FRAGMENTED_POOL"}

\* What holds of the locals c of a call, in flight or returned: it makes a
\* new pool only when the existing pools, all tried, ended out of pool
\* memory or fragmented, makes at most one, records it before it retries,
\* and retries once, on that pool.
CallRecovers(c) ==
    /\ c.created <= 1
    /\ c.retried <= c.created
    /\ c.created = 1 =>
           /\ PoolExhausted(c.loop_vr)
           /\ c.tried = c.pool_count
    /\ c.retried = 1 =>
           /\ c.vk_pool = c.descriptorPool
           /\ \E n \in 1..Len(sampler_state.vk_descriptor_pools) :
                  sampler_state.vk_descriptor_pools[n] = c.descriptorPool
    /\ c.returned = "hresult_from_vk_result" =>
           /\ c.cause = "none" <=> c.vr = "VK_SUCCESS"
           /\ c.cause = "existing" => ~PoolExhausted(c.vr)
           /\ c.cause = "retry" => c.retried = 1
           /\ c.cause # "create_pool" =>
                  c.retried = (IF PoolExhausted(c.loop_vr) THEN 1 ELSE 0)

\* The recovery of vkd3d_sampler_state_allocate_descriptor_set: every pool
\* call and list update is made by the holder of the mutex, which holds it
\* from the lock to the return, and the pools recorded are the pools alive.
RecoversUnderMutex ==
    /\ ~unlockedCall
    /\ CallRecovers(returned_call)
    /\ \A t \in Threads :
          /\ CallRecovers(sampler_call[t])
          /\ (sampler_state.mutex = t)
                 = (sampler_call[t].pc \notin {"idle", "lock"})
    /\ (\A t \in Threads : sampler_call[t].pc # "reserve") =>
           {sampler_state.vk_descriptor_pools[n] :
                n \in 1..Len(sampler_state.vk_descriptor_pools)}
               = {p \in 1..Len(vk_pools) : vk_pools[p].alive}

\* C30 as stated: the recovery happens under the mutex, and a call that
\* returns a failure returns the failure of the pool creation or of the
\* retry.
C30_OnlyCreationOrRetryFails ==
    /\ RecoversUnderMutex
    /\ returned_call.cause \in {"none", "create_pool", "retry"}

\* C30, amended: the recovery happens under the mutex.  A failure returned
\* is that of locking the mutex (returned without the mutex), of the last
\* existing pool when it is neither out of pool memory nor fragmented, of
\* the pool creation, of growing the pool list (the new pool is destroyed
\* and not recorded) or of the retry; running out of pool memory in the
\* existing pools is never returned as such.
C30_ExhaustionRecovered ==
    /\ RecoversUnderMutex
    /\ LET c == returned_call
       IN  /\ c.cause = "lock" => c.returned = "hresult_from_errno"
           /\ c.cause = "reserve" =>
                  /\ c.returned = "E_OUTOFMEMORY"
                  /\ ~vk_pools[c.descriptorPool].alive
           /\ c.cause = "existing" =>
                  /\ c.vr = "VK_ERROR_OUT_OF_HOST_MEMORY"
                  /\ c.created = 0
           /\ c.cause \in {"create_pool", "retry"} =>
                  PoolExhausted(c.loop_vr)

\* A call found the one existing pool out of pool memory, created and
\* recorded a second pool, allocated from it and returned success.
C30_Witness ==
    LET c == returned_call
    IN  /\ c.cause = "none"
        /\ c.returned = "hresult_from_vk_result"
        /\ c.pool_count = 1
        /\ c.tried = 1
        /\ c.loop_vr = "VK_ERROR_OUT_OF_POOL_MEMORY"
        /\ c.created = 1
        /\ c.retried = 1
        /\ c.vk_pool = sampler_state.vk_descriptor_pools[2]
        /\ vk_pools[c.vk_pool].sets = 1
        /\ sampler_state.mutex = 0

\* Properties of image view keys and the native image view

\* C40: the image view key's equality and hash cover every field that
\* vkd3d_create_texture_view passes to vkCreateImageView, so two requests
\* whose native image views would differ are never served from one cache
\* entry.
C40_KeyCoversNativeViewFields ==
    \A k1, k2 \in pool :
        (/\ k1.view_type = "IMAGE"
         /\ k2.view_type = "IMAGE"
         /\ VkImageViewCreateInfo(k1) # VkImageViewCreateInfo(k2)) =>
            /\ served[k1] \cap served[k2] = {}
            /\ \A en \in map :
                   ~(/\ vkd3d_view_entry_compare(k1, en.key)
                     /\ vkd3d_view_entry_compare(k2, en.key))

(***************************************************************************)
(* Properties of external image resources.                                 *)
(***************************************************************************)
\* C39: once the internal reference count of an external image resource
\* reaches zero, d3d12_resource_destroy releases everything the resource
\* owns but the external image: the cached views, the private store, the
\* object memory and the device reference taken at creation.
C39_ExternalDestroyReleasesAll ==
    (resource.state = "destroyed" /\ "EXTERNAL" \in resource.flags) =>
        /\ live = {}
        /\ map = {}
        /\ immediate => deviceRefs = 0

(***************************************************************************)
(* Properties of static samplers.                                          *)
(***************************************************************************)
SamplersCreatedFor(d) == {h \in 1..Len(vk_samplers) : vk_samplers[h] = d}

\* The description compares equal to itself: none of its floats is a NaN.
SelfEqual(d) ==
    /\ float_equal(d.MipLODBias, d.MipLODBias)
    /\ float_equal(d.MinLOD, d.MinLOD)
    /\ float_equal(d.MaxLOD, d.MaxLOD)

C32_CookiesDistinctIncreasingNonzero ==
    /\ \A i \in 1..Len(cookies) : cookies[i].cookie # 0
    /\ \A i, j \in 1..Len(cookies) :
           i < j => cookies[i].cookie < cookies[j].cookie
    /\ \A i, j \in 1..Len(cookies) :
           cookies[i].cookie = cookies[j].cookie => i = j

\* Two threads allocated cookies in turn.
C32_Witness ==
    /\ Len(cookies) = MaxCookies
    /\ \E i, j \in 1..Len(cookies) :
           /\ i < j
           /\ cookies[i].thread # cookies[j].thread
           /\ \E k \in 1..Len(cookies) :
                  k > j /\ cookies[k].thread = cookies[i].thread

(***************************************************************************)
(* Properties of the descriptor heap object.                               *)
(***************************************************************************)
ReturnsGpuVa(calls) ==
    Cardinality({n \in 1..Len(calls) :
                     calls[n] = "d3d12_device_return_descriptor_heap_gpu_va"})

\* C33: d3d12_descriptor_heap_cleanup runs once per heap, from the Release
\* that took refcount to zero or from a failed d3d12_descriptor_heap_init.
\* It destroys the descriptor pool and frees the side buffers, returns the
\* GPU virtual base address exactly when one was allocated, and the device
\* reference is released exactly when one was taken: nothing of the heap is
\* left after either teardown and no reference was outstanding.
C33_HeapTeardownOnce ==
    /\ heap_teardown.cleanups
           + Cardinality({t \in Threads : hpc[t] = "cleanup"}) <= 1
    /\ heap_object.state = "alive" =>
           /\ heap_teardown.cleanups = 0
           /\ heap_deviceRefs = 1
           /\ \A t \in Threads : hpc[t] = "cleanup" => heap_object.refcount = 0
    /\ heap_object.state \in {"destroyed", "failed"} =>
           /\ heap_teardown.cleanups = 1
           /\ heap_live = {}
           /\ heap_deviceRefs = 0
           /\ ReturnsGpuVa(heap_teardown.calls) =
                  (IF heap_object.desc.shader_visible THEN 1 ELSE 0)
           /\ \E n \in 1..Len(heap_teardown.calls) :
                  heap_teardown.calls[n] = "vkDestroyDescriptorPool"
    /\ heap_object.state = "destroyed" =>
           /\ heap_object.refcount = 0
           /\ heap_teardown.refsAtCleanup = 0
           /\ heap_teardown.device_released = 1
    /\ heap_object.state = "failed" => heap_teardown.device_released = 0

\* A shader-visible heap with side buffers in device memory was torn down
\* by the last Release, which returned its GPU virtual base address first.
C33_Witness ==
    /\ heap_object.state = "destroyed"
    /\ heap_object.desc.shader_visible
    /\ heap_object.vk_memory
    /\ heap_object.gpu_va # 0
    /\ heap_teardown.calls[1] = "d3d12_device_return_descriptor_heap_gpu_va"

(***************************************************************************)
(* Properties of the image layout written with a texture view.             *)
(***************************************************************************)
SrvWritten == lastWrite.op = "texture_srv" /\ lastWrite.written

UavWritten == lastWrite.op = "texture_uav" /\ lastWrite.written

ForcedGeneral ==
    \/ "ALLOW_SIMULTANEOUS_ACCESS" \in request.Flags
    \/ request.Layout = "ROW_MAJOR"

\* C34 as stated: the layout written with a texture SRV is general for a
\* simultaneous-access or row-major resource, depth/stencil read-only for a
\* depth/stencil resource and shader-read-only-optimal otherwise; the layout
\* written with a texture UAV is general.
C34_LayoutByThreeCases ==
    /\ SrvWritten =>
           /\ lastWrite.imageLayout = created.common_layout
           /\ lastWrite.imageLayout =
                  IF ForcedGeneral THEN "VK_IMAGE_LAYOUT_GENERAL"
                  ELSE IF "ALLOW_DEPTH_STENCIL" \in request.Flags
                  THEN "VK_IMAGE_LAYOUT_DEPTH_STENCIL_READ_ONLY_OPTIMAL"
                  ELSE "VK_IMAGE_LAYOUT_SHADER_READ_ONLY_OPTIMAL"
    /\ UavWritten => lastWrite.imageLayout = "VK_IMAGE_LAYOUT_GENERAL"

\* C34 as amended: the SRV layout is the resource's common layout.  That is
\* general for simultaneous access, a row-major layout or an image created
\* with linear tiling; otherwise depth/stencil attachment-optimal with
\* DENY_SHADER_RESOURCE, otherwise depth/stencil read-only with
\* ALLOW_DEPTH_STENCIL, otherwise shader-read-only-optimal.  The UAV layout
\* is general.
C34_LayoutIsCommonLayout ==
    /\ SrvWritten =>
           /\ lastWrite.imageLayout = created.common_layout
           /\ (ForcedGeneral \/ created.tiling = "LINEAR") =>
                  lastWrite.imageLayout = "VK_IMAGE_LAYOUT_GENERAL"
           /\ (~ForcedGeneral /\ created.tiling # "LINEAR") =>
                  /\ "DENY_SHADER_RESOURCE" \in request.Flags =>
                         lastWrite.imageLayout =
                             "VK_IMAGE_LAYOUT_DEPTH_STENCIL_ATTACHMENT_OPTIMAL"
                  /\ request.Flags = {"ALLOW_DEPTH_STENCIL"} =>
                         lastWrite.imageLayout =
                             "VK_IMAGE_LAYOUT_DEPTH_STENCIL_READ_ONLY_OPTIMAL"
                  /\ request.Flags = {} =>
                         lastWrite.imageLayout =
                             "VK_IMAGE_LAYOUT_SHADER_READ_ONLY_OPTIMAL"
    /\ UavWritten => lastWrite.imageLayout = "VK_IMAGE_LAYOUT_GENERAL"

\* An SRV was written on a depth/stencil texture that shaders may not read.
C34_Witness ==
    /\ SrvWritten
    /\ request.Flags = {"DENY_SHADER_RESOURCE", "ALLOW_DEPTH_STENCIL"}
    /\ request.Layout = "UNKNOWN"
    /\ created.tiling = "OPTIMAL"

(***************************************************************************)
(* Properties of the quantized buffer view range.                          *)
(***************************************************************************)
\* The requested range in 32-bit elements, as the view is addressed.
RequestedFirst ==
    IF lastWrite.request.byte_count # 0 THEN lastWrite.request.first_element
    ELSE (lastWrite.request.first_element
              * lastWrite.request.structured_stride) \div 4

RequestedCount ==
    IF lastWrite.request.byte_count # 0 THEN lastWrite.request.num_elements
    ELSE (lastWrite.request.num_elements
              * lastWrite.request.structured_stride) \div 4

ResourceElements == AlignedViewResource.Width \div 4

\* A view range was chosen with VKD3D_TYPED_OFFSET_BUFFER for a request the
\* device can serve.
Quantized ==
    /\ lastWrite.op = "aligned_view"
    /\ "TYPED_OFFSET_BUFFER" \in heap.bindless_state.flags
    /\ RequestedCount <= MaxTexelBufferElements

\* The range [begin, end) holds the request clipped to the resource and the
\* stored element offset is first_element - begin.
AlignedViewContainsRequest ==
    Quantized =>
        LET begin == lastWrite.first_element
            end == begin + lastWrite.num_elements
        IN  /\ begin <= RequestedFirst
            /\ end >= min(RequestedFirst + RequestedCount, ResourceElements)
            /\ lastWrite.bound_range.element_offset = RequestedFirst - begin

\* C35: the range [begin, end) chosen by vkd3d_buffer_view_get_aligned_view
\* holds the requested range clipped to the resource, the stored element
\* offset is first_element - begin, and end - begin is at most the device's
\* maxTexelBufferElements.
C35_AlignedViewWithinLimit ==
    /\ AlignedViewContainsRequest
    /\ Quantized => lastWrite.num_elements <= MaxTexelBufferElements

\* The tile index at which the packed mip tail of a reserved image starts:
\* the StartTileIndexInOverallResource of the packed mip info when there
\* are packed mips, the tile count when there are none.
PackedStart(t) ==
    IF t.NumPackedMips # 0 THEN t.StartTileIndexInOverallResource
    ELSE t.total_tile_count

\* C36: for a reserved image the tile loop of d3d12_resource_init_sparse_info
\* fills every entry of the tile table and then ends; a tile index i below
\* the packed mip start is an image region of a standard subresource s, never
\* of a packed mip, at a tile coordinate (x, y, z) inside the tile dimensions
\* of s with i = StartTileIndex(s) + x + WidthInTiles(s) * (y +
\* HeightInTiles(s) * z), the subresources never decrease along the table,
\* and a tile index at or above the packed mip start is the byte range of the
\* mip tail at VKD3D_TILE_SIZE * (i - start).
C36_TileLoopIndexing ==
    (ReservedCreated /\ request.desc.Dimension # "BUFFER") =>
        LET t == d3d12_resource_get_tiling(request.desc, request.native)
            tiles == created.result.sparse.tiles
            start == PackedStart(t)
            block_extent == request.native.sparse.imageGranularity
        IN  /\ Len(tiles) = t.total_tile_count
            /\ \A i \in 0..(Len(tiles) - 1) :
                   LET tile == tiles[i + 1]
                   IN  IF i < start
                       THEN /\ tile.kind = "image"
                            /\ tile.subresource_index < Len(t.tilings)
                            /\ tile.subresource_index % request.desc.MipLevels
                                   < t.NumStandardMips
                            /\ LET tiling == t.tilings[tile.subresource_index + 1]
                                   x == tile.offset[1] \div block_extent.width
                                   y == tile.offset[2] \div block_extent.height
                                   z == tile.offset[3] \div block_extent.depth
                               IN  /\ tile.offset = <<x * block_extent.width,
                                                   y * block_extent.height,
                                                   z * block_extent.depth>>
                                   /\ x < tiling.WidthInTiles
                                   /\ y < tiling.HeightInTiles
                                   /\ z < tiling.DepthInTiles
                                   /\ i = tiling.StartTileIndexInOverallResource
                                          + x + tiling.WidthInTiles
                                                * (y + tiling.HeightInTiles * z)
                       ELSE /\ tile.kind = "buffer"
                            /\ tile.offset
                                   = request.native.sparse.imageMipTailOffset
                                     + VKD3D_TILE_SIZE * (i - start)
            /\ \A i, j \in 1..Len(tiles) :
                   (i < j /\ j <= start) =>
                       tiles[i].subresource_index <= tiles[j].subresource_index

\* A reserved texture of two array layers and two mip levels whose second
\* mip level is packed: the loop has stepped from subresource 0 over the
\* packed subresource 1 to subresource 2, and has reached the mip tail.
C36_Witness ==
    /\ ReservedCreated
    /\ request.desc.Dimension = "TEXTURE2D"
    /\ request.desc.DepthOrArraySize = 2
    /\ LET tiles == created.result.sparse.tiles
       IN  /\ \E i \in 1..Len(tiles) :
                  tiles[i].kind = "image" /\ tiles[i].subresource_index = 0
           /\ \E i \in 1..Len(tiles) :
                  tiles[i].kind = "image" /\ tiles[i].subresource_index = 2
           /\ \E i \in 1..Len(tiles) : tiles[i].kind = "buffer"

\* The slot is not bound and its metadata is that of a null descriptor: no
\* cookie, none of the flags that name a live write, and the set_info_mask of
\* the heap's null template.
NullSlotMetadata(d) ==
    "NON_NULL" \notin d.flags =>
        /\ d.cookie = 0
        /\ d.flags \cap {"VIEW", "OFFSET_RANGE", "RAW_VA_AUX_BUFFER",
                         "BUFFER_OFFSET"} = {}
        /\ d.set_info_mask = heap.null_descriptor_template.set_info_mask

\* C38: in every state of a CBV_SRV_UAV heap, whatever SRV and UAV writes
\* were made to it and whether or not they resolved their view, a slot whose
\* NON_NULL flag is clear has cookie 0, none of the flags VIEW, OFFSET_RANGE,
\* RAW_VA_AUX_BUFFER and BUFFER_OFFSET, and the set_info_mask of the heap's
\* null template.
C38_NullSlotInvariant ==
    \A s \in Slots : NullSlotMetadata(descs[s])

(***************************************************************************)
(* Descriptor copies on the range path and on the per-slot path.           *)
(***************************************************************************)
\* A bindless state without VK_VALVE_mutable_descriptor_type and without raw
\* SSBOs: one set per descriptor type, typed buffer views with the offset
\* buffer, UAV counters in the raw VA aux buffer.
TypedOnlyState ==
    [VALVE_mutable_descriptor_type |-> FALSE,
     flags |-> {"TYPED_OFFSET_BUFFER", "RAW_VA_AUX_BUFFER"},
     ray_tracing |-> FALSE,
     set_info |-> <<[vk_descriptor_type |-> VK_DESCRIPTOR_TYPE_UNIFORM_BUFFER,
                     flags |-> {"CBV"},
                     cbv |-> TRUE,
                     cbv_type |-> VK_DESCRIPTOR_TYPE_UNIFORM_BUFFER],
                    [vk_descriptor_type |-> VK_DESCRIPTOR_TYPE_SAMPLED_IMAGE,
                     flags |-> {"SRV", "IMAGE"},
                     cbv |-> FALSE,
                     cbv_type |-> VK_DESCRIPTOR_TYPE_UNIFORM_BUFFER],
                    [vk_descriptor_type |-> VK_DESCRIPTOR_TYPE_STORAGE_TEXEL_BUFFER,
                     flags |-> {"UAV", "BUFFER"},
                     cbv |-> FALSE,
                     cbv_type |-> VK_DESCRIPTOR_TYPE_UNIFORM_BUFFER],
                    [vk_descriptor_type |-> VK_DESCRIPTOR_TYPE_UNIFORM_TEXEL_BUFFER,
                     flags |-> {"SRV", "BUFFER"},
                     cbv |-> FALSE,
                     cbv_type |-> VK_DESCRIPTOR_TYPE_UNIFORM_BUFFER],
                    [vk_descriptor_type |-> VK_DESCRIPTOR_TYPE_STORAGE_IMAGE,
                     flags |-> {"UAV", "IMAGE"},
                     cbv |-> FALSE,
                     cbv_type |-> VK_DESCRIPTOR_TYPE_UNIFORM_BUFFER]>>]

\* Buffer views of BufferResource, with and without a UAV counter, whose
\* native view is or is not made.  They are written to the first descriptor
\* and copied between the first two.
BufferSrvDescs ==
    {desc \in SrvDescs : ~desc.null /\ desc.ViewDimension = "BUFFER"}

BufferUavDescs ==
    {desc \in UavDescs : ~desc.null /\ desc.ViewDimension = "BUFFER"}

InitDescCopyPaths ==
    /\ InitViewMap({{}})
    /\ InitResource({[bufferDeviceAddress |-> TRUE]})
    /\ InitDesc(BindlessStates \cup {TypedOnlyState})
    /\ InitCreateIdle
    /\ InitSamplerIdle
    /\ InitCookieIdle
    /\ InitHeapIdle

NextDescCopyPaths ==
    \/ \E s \in ViewSlots : \E desc \in CbvDescs :
           CreateConstantBufferView(s, desc)
    \/ \E s \in ViewSlots : \E desc \in BufferSrvDescs :
           CreateShaderResourceView(s, BufferResource, desc)
    \/ \E s \in ViewSlots : \E desc \in BufferUavDescs :
           CreateUnorderedAccessView(s, BufferResource, desc)
    \/ \E d \in CopySlots : \E s \in CopySlots : CopyDescriptors(d, s)

SpecDescCopyPaths == InitDescCopyPaths /\ [][NextDescCopyPaths]_vars

\* The last operation was d3d12_desc_copy of one descriptor.
CopyDone == lastWrite.op = "copy"

\* The metadata of the two slots are equal.
MetadataEqual(dst, src) ==
    /\ dst.cookie = src.cookie
    /\ dst.set_info_mask = src.set_info_mask
    /\ dst.flags = src.flags
    /\ dst.current_null_type = src.current_null_type

\* The member of the info union that the flags name is equal: the view of a
\* VIEW descriptor, the buffer offset and range of an OFFSET_RANGE one.
InfoEqual(dst, src) ==
    /\ "VIEW" \in src.flags => dst.view = src.view
    /\ "OFFSET_RANGE" \in src.flags => dst.buffer = src.buffer

\* C37 as stated: after d3d12_desc_copy the destination's metadata, its info
\* and its entries of the raw VA and buffer range side tables equal the
\* source's, on the range path and on the per-slot path.
C37_CopyEqualsSource ==
    CopyDone =>
        LET dst == descs[lastWrite.slot]
            src == descs[lastWrite.src]
        IN  /\ MetadataEqual(dst, src)
            /\ InfoEqual(dst, src)
            /\ dst.raw_va = src.raw_va
            /\ dst.bound_range = src.bound_range

\* C37, amended: on the range path the destination's metadata and info equal
\* the source's, and so does each side-table entry of a table the device
\* keeps.  On the per-slot path a copy that is not skipped makes metadata and
\* info equal, a skipped copy leaves them as they were, equal to the source's
\* in cookie, flags and the info member the flags name; the raw VA entry
\* equals the source's when the source has RAW_VA_AUX_BUFFER and the buffer
\* range entry when it has BUFFER_OFFSET, and are left alone otherwise.
C37_CopyEqualsSourceWhereFlagged ==
    CopyDone =>
        LET dst == descs[lastWrite.slot]
            src == descs[lastWrite.src]
            state == heap.bindless_state
        IN  IF "MUTABLE_TYPE" \in state.flags
            THEN /\ MetadataEqual(dst, src)
                 /\ dst.view = src.view /\ dst.buffer = src.buffer
                 /\ "RAW_VA_AUX_BUFFER" \in state.flags =>
                        dst.raw_va = src.raw_va
                 /\ state.flags \cap {"TYPED_OFFSET_BUFFER",
                                      "SSBO_OFFSET_BUFFER"} # {} =>
                        dst.bound_range = src.bound_range
            ELSE /\ IF "metadata" \in lastWrite.wrote
                    THEN /\ MetadataEqual(dst, src)
                         /\ dst.view = src.view /\ dst.buffer = src.buffer
                    ELSE /\ dst.cookie = src.cookie
                         /\ dst.flags = src.flags
                         /\ InfoEqual(dst, src)
                 /\ ("RAW_VA_AUX_BUFFER" \in src.flags
                         /\ heap.raw_va_aux_buffer) =>
                        dst.raw_va = src.raw_va
                 /\ "BUFFER_OFFSET" \in src.flags =>
                        dst.bound_range = src.bound_range

\* A per-slot copy of a bound descriptor was skipped, and the destination's
\* buffer range entry is not the source's, whose flags have no BUFFER_OFFSET.
C37_Witness ==
    /\ CopyDone
    /\ "MUTABLE_TYPE" \notin heap.bindless_state.flags
    /\ "metadata" \notin lastWrite.wrote
    /\ "NON_NULL" \in descs[lastWrite.src].flags
    /\ "BUFFER_OFFSET" \notin descs[lastWrite.src].flags
    /\ descs[lastWrite.slot].bound_range # descs[lastWrite.src].bound_range
====
